---- MODULE Spec2Model ----
(***************************************************************************)
(* Authentication / session state machine of the registration demo:        *)
(* AuthContext (reducer, login, register, logout, unlock timer),           *)
(* AuthenticationServiceImpl and SecureStorageServiceImpl over             *)
(* AsyncStorage and the keychain, and the LoginScreen, RegistrationScreen  *)
(* and HomeScreen handlers that call them.  Every await of the source is   *)
(* a point where other callbacks may run, so every asynchronous operation  *)
(* is split at its awaits; the code between two awaits is one action.      *)
(***************************************************************************)
EXTENDS Integers, Sequences, FiniteSets, TLC

\* ---------------------------------------------------------------- bounds
MaxTicks == 3          \* clock advances at most this many times
TicksPerLockout == 2   \* clock granularity: ticks per lockout window
MaxFaults == 1         \* storage / keychain calls that reject
MaxUsers == 2          \* user ids generated
MaxRestarts == 1       \* process restarts
MaxInFlight == 2       \* asynchronous handlers running at the same time
MaxEdits == 3          \* value changes made in a form, by typing or by reset
MaxFormTicks == 3      \* clock advances while the form engine runs
MaxMounts == 2         \* times a form is mounted
MaxQueue == 2          \* AsyncStorage requests of the form engine in flight
MaxClearAlls == 1      \* calls of clearAllFormData
MaxClears == 1         \* calls of clearPersistedData on a mounted form
MaxAttempts == 5       \* calls of incrementFailedAttempts
MaxLockChecks == 2     \* calls of isAccountLocked
MaxRegisters == 3      \* calls of authenticationService.register

\* ---------------------------------------------------- program constants
LOCKOUT_THRESHOLD == 5
LOCKOUT_MS == 15 * 60 * 1000
TickMs == LOCKOUT_MS \div TicksPerLockout
DEBOUNCE_MS == 500
TTL_MS == 24 * 60 * 60 * 1000

\* optional values: null is <<>>, a present value v is <<v>>
None == <<>>
Some(v) == <<v>>

\* ------------------------------------------------------------- inputs
\* e-mail addresses are character sequences, so that case conversion is
\* computed and not assumed
\* String.prototype.toLowerCase over the characters used
LowerChar(c) == CASE c = "A" -> "a" [] c = "B" -> "b" [] c = "M" -> "m" [] OTHER -> c
toLowerCase(s) == [i \in DOMAIN s |-> LowerChar(s[i])]

UpperEmail == <<"A", "@", "B">>
LowerEmail == toLowerCase(UpperEmail)
MissingEmail == <<"m", "@", "x">>
\* the (e-mail, password) pairs typed into the registration and login forms;
\* users are stored under LowerEmail, so UpperEmail matches them only when
\* case is ignored
RegisterInputs == { <<UpperEmail, "Passw0rd!">> }
LoginInputs == { <<UpperEmail, "x">>, <<MissingEmail, "x">> }

LoginSlots == {"submit", "bio", "auto"}
Slots == LoginSlots \cup {"register", "logout", "init"}

VARIABLES
  now,            \* Date.now()
  authState,      \* AuthProvider's reducer state
  unlockTimer,    \* pending unlock timeouts: the lockoutUntil each captured
  storage,        \* AsyncStorage keys of the authentication service
  keychain,       \* the single keychain slot of SERVICE_NAME
  idCounter,      \* user ids generated so far
  tasks,          \* position and locals of each asynchronous handler
  isSubmitting,   \* LoginScreen form state isSubmitting
  biometricEnabled, \* LoginScreen state biometricEnabled
  settled,        \* the handler promise settled by the last step, if any, and
                  \* the alert handleBiometricLogin showed with it
  faults,         \* rejected storage / keychain calls so far
  restarts,       \* process restarts so far
  formState,      \* useForm state of the mounted form, with its options
  persistTimers,  \* pending debounce timeouts: due time and captured values
  asyncStorage,   \* AsyncStorage keys of the form records and the theme
  queue,          \* form engine requests AsyncStorage has not completed
  formResult,     \* the form service call completed by the last step
  formBudget      \* edits, clock advances, mounts, clear and clearAll calls so
                  \* far, and whether reset made the latest change of the values

formVars == <<formState, persistTimers, asyncStorage, queue, formResult, formBudget>>

vars == <<now, authState, unlockTimer, storage, keychain, idCounter, tasks,
          isSubmitting, biometricEnabled, settled, faults, restarts, formVars>>

\* --------------------------------------------------------- AuthContext
initialState ==
  [ isAuthenticated |-> FALSE, user |-> None, isLoading |-> TRUE,
    failedAttempts |-> 0, isLocked |-> FALSE, lockoutUntil |-> None ]

IncrementMutNoLock(state) ==
  [state EXCEPT !.failedAttempts = state.failedAttempts + 1]

IncrementFailedAttempts(state) ==
  LET newFailedAttempts == state.failedAttempts + 1
      shouldLock == newFailedAttempts >= LOCKOUT_THRESHOLD
  IN [state EXCEPT !.failedAttempts = newFailedAttempts,
                   !.isLocked = shouldLock,
                   !.lockoutUntil = IF shouldLock THEN Some(now + LOCKOUT_MS) ELSE None]

SuccessMutKeepCounters(state, payload) ==
  [state EXCEPT !.isAuthenticated = TRUE, !.user = Some(payload), !.isLoading = FALSE]

LoginOrRegisterSuccess(state, payload) ==
  [state EXCEPT !.isAuthenticated = TRUE, !.user = Some(payload), !.isLoading = FALSE,
                !.failedAttempts = 0, !.isLocked = FALSE, !.lockoutUntil = None]

UnlockAccountMutKeepsAttempts(state) ==
  [state EXCEPT !.isLocked = FALSE, !.lockoutUntil = None]

UnlockAccount(state) ==
  [state EXCEPT !.isLocked = FALSE, !.lockoutUntil = None, !.failedAttempts = 0]

authReducer(state, action) ==
  CASE action.type \in {"LOGIN_START", "REGISTER_START"} ->
         [state EXCEPT !.isLoading = TRUE]
    [] action.type \in {"LOGIN_SUCCESS", "REGISTER_SUCCESS"} ->
         LoginOrRegisterSuccess(state, action.payload)
    [] action.type \in {"LOGIN_FAILURE", "REGISTER_FAILURE"} ->
         [state EXCEPT !.isLoading = FALSE]
    [] action.type = "LOGOUT" ->
         [initialState EXCEPT !.isLoading = FALSE]
    [] action.type = "SET_LOADING" ->
         [state EXCEPT !.isLoading = action.payload]
    [] action.type = "INCREMENT_FAILED_ATTEMPTS" ->
         IncrementFailedAttempts(state)
    [] action.type = "RESET_FAILED_ATTEMPTS" ->
         [state EXCEPT !.failedAttempts = 0, !.isLocked = FALSE, !.lockoutUntil = None]
    [] action.type = "UNLOCK_ACCOUNT" ->
         UnlockAccount(state)
    [] action.type = "LOCK_ACCOUNT" ->
         [state EXCEPT !.isLocked = TRUE, !.lockoutUntil = Some(action.payload)]
    [] action.type = "RESTORE_SESSION" ->
         [state EXCEPT !.isAuthenticated = TRUE, !.user = Some(action.payload),
                       !.isLoading = FALSE]
    [] OTHER -> state

Act(type) == [type |-> type, payload |-> None]
ActP(type, payload) == [type |-> type, payload |-> payload]

\* the unlock effect of AuthProvider, deps [isLocked, lockoutUntil]: when a
\* dependency changed the previous timeout is cleared and, if the account is
\* locked, a new one is set that captures the new lockoutUntil
UnlockEffectMutNoCleanup(old, new, timers) ==
  IF old.isLocked = new.isLocked /\ old.lockoutUntil = new.lockoutUntil
  THEN timers
  ELSE IF new.isLocked /\ new.lockoutUntil # None
       THEN timers \cup {new.lockoutUntil[1]} ELSE timers

UnlockEffect(old, new, timers) ==
  IF old.isLocked = new.isLocked /\ old.lockoutUntil = new.lockoutUntil
  THEN timers
  ELSE IF new.isLocked /\ new.lockoutUntil # None THEN {new.lockoutUntil[1]} ELSE {}

idleTask ==
  [ pc |-> "idle", email |-> <<>>, password |-> "", isLocked |-> FALSE,
    user |-> None, users |-> {}, lockedAtCall |-> FALSE, changedSession |-> FALSE ]

\* the automatic-biometric effect of LoginScreen, deps [isLocked,
\* isAuthenticated].  It runs when the screen mounts (the navigator shows it
\* while isAuthenticated is false) and when a dependency changes; if the
\* account is neither locked nor authenticated it calls
\* attemptBiometricLogin(), which, when the keychain holds credentials (kc)
\* and the device supports biometry (taken for granted), sets the 500 ms
\* timeout for handleBiometricLogin(false) of that render, in which isLocked
\* is false.  One automatic attempt is tracked at a time.
attemptBiometricLogin(mounts, old, new, tk, kc) ==
  IF /\ ~new.isAuthenticated /\ ~new.isLocked
     /\ (mounts \/ old.isAuthenticated \/ old.isLocked)
     /\ kc # None
     /\ tk["auto"].pc = "idle"
  THEN [tk EXCEPT !["auto"] = [idleTask EXCEPT !.pc = "timer", !.isLocked = new.isLocked]]
  ELSE tk

\* checkBiometricAvailability() runs when LoginScreen mounts
checkBiometricAvailability(old, new, enabled, kc) ==
  IF old.isAuthenticated /\ ~new.isAuthenticated THEN kc # None ELSE enabled

\* a render commit: the new reducer state and the effects that depend on it
Commit(new, tk, kc) ==
  /\ authState' = new
  /\ unlockTimer' = UnlockEffect(authState, new, unlockTimer)
  /\ tasks' = attemptBiometricLogin(FALSE, authState, new, tk, kc)
  /\ biometricEnabled' = checkBiometricAvailability(authState, new, biometricEnabled, kc)

\* a storage or keychain call either resolves (TRUE) or rejects (FALSE)
Outcomes == IF faults < MaxFaults THEN {TRUE, FALSE} ELSE {TRUE}
Fault(ok) == faults' = IF ok THEN faults ELSE faults + 1

\* the result a handler's promise settles with in this step
SettleAlert(t, result, alert) ==
  settled' = Some([task |-> t, result |-> result, alert |-> alert])
Settle(t, result) == SettleAlert(t, result, None)
Pending == settled' = None

\* memory after the process starts: AuthProvider and LoginScreen mount
Started(kc) ==
  /\ authState' = initialState
  /\ unlockTimer' = {}
  /\ tasks' = attemptBiometricLogin(TRUE, initialState, initialState,
                [s \in Slots |-> IF s = "init"
                                 THEN [idleTask EXCEPT !.pc = "getCurrentUser"]
                                 ELSE idleTask], kc)
  /\ isSubmitting' = FALSE
  /\ biometricEnabled' = (kc # None)
  /\ settled' = None

\* ------------------------------------------------- form engine: state
\* AsyncStorage keys are sequences of segments, so that startsWith is
\* computed: every key of the application begins with '@ClientPoc:'
FORM_DATA_PREFIX == <<"@ClientPoc:", "FormData:">>
getStorageKey(formId) == FORM_DATA_PREFIX \o <<formId>>
THEME_STORAGE_KEY == <<"@ClientPoc:", "Theme">>
USER_STORAGE_KEY == <<"@ClientPoc:", "CurrentUser">>
USERS_STORAGE_KEY == <<"@ClientPoc:", "Users">>
FAILED_ATTEMPTS_KEY == <<"@ClientPoc:", "FailedAttempts">>
LOCKOUT_UNTIL_KEY == <<"@ClientPoc:", "LockoutUntil">>

startsWith(key, prefix) ==
  /\ Len(key) >= Len(prefix)
  /\ SubSeq(key, 1, Len(prefix)) = prefix

\* RegistrationScreen's useForm persists under 'registration_form'; a second
\* form id stands for any other caller of the persistence service
persistenceKey == "registration_form"
OtherFormId == "profile_form"
FormIds == {persistenceKey, OtherFormId}
FormKeys == {getStorageKey(f) : f \in FormIds}

\* --------------------------------------------- form engine: validation
\* field values are character sequences, so that length, trim and the
\* regular expressions are computed
Whitespace == {" "}
RECURSIVE trimStart(_)
trimStart(s) == IF s # <<>> /\ Head(s) \in Whitespace THEN trimStart(Tail(s)) ELSE s
RECURSIVE trimEnd(_)
trimEnd(s) ==
  IF s # <<>> /\ s[Len(s)] \in Whitespace THEN trimEnd(SubSeq(s, 1, Len(s) - 1)) ELSE s
trim(s) == trimEnd(trimStart(s))

\* character classes of the regular expressions, over the characters used
LowerChars == {"a", "b", "c", "d", "e", "f"}
UpperChars == {"A", "B", "J", "M"}
DigitChars == {"1"}
SpecialChars == {"@", "!"}

\* EMAIL_REGEX = /^[^\s@]+@[^\s@]+\.[^\s@]+$/: one '@', not first, no white
\* space, and after the '@' a '.' that is neither next to it nor last
testEmail(s) ==
  /\ \A i \in DOMAIN s : s[i] \notin Whitespace
  /\ Cardinality({i \in DOMAIN s : s[i] = "@"}) = 1
  /\ \E i \in DOMAIN s :
       /\ s[i] = "@"
       /\ i > 1
       /\ \E j \in DOMAIN s : s[j] = "." /\ j > i + 1 /\ j < Len(s)

\* PASSWORD_REGEX: a lower-case letter, an upper-case letter, a digit and a
\* special character, only such characters, at least 8 of them
testPassword(s) ==
  /\ \E i \in DOMAIN s : s[i] \in LowerChars
  /\ \E i \in DOMAIN s : s[i] \in UpperChars
  /\ \E i \in DOMAIN s : s[i] \in DigitChars
  /\ \E i \in DOMAIN s : s[i] \in SpecialChars
  /\ \A i \in DOMAIN s : s[i] \in LowerChars \cup UpperChars \cup DigitChars \cup SpecialChars
  /\ Len(s) >= 8

\* rule.pattern.test(value); the expressions carry no g or y flag, so test
\* keeps no position between calls
test(pattern, value) ==
  CASE pattern = "EMAIL_REGEX" -> testEmail(value)
    [] pattern = "PASSWORD_REGEX" -> testPassword(value)

\* rule.custom(value): the application defines no custom rule; this one
\* (the value holds no '@') stands for a caller's predicate
custom(name, value) == \A i \in DOMAIN value : value[i] # "@"

\* a ValidationRule; an option that is not given is FALSE, 0 or None, which
\* the conditions of validateField treat like undefined
Rule(required, minLength, maxLength, pattern, customRule) ==
  [required |-> required, minLength |-> minLength, maxLength |-> maxLength,
   pattern |-> pattern, custom |-> customRule]

\* validationRules of utils/validation.ts and the password rule of LoginScreen
validationRules ==
  [ email |-> Rule(TRUE, 0, 0, Some("EMAIL_REGEX"), None),
    password |-> Rule(TRUE, 8, 0, Some("PASSWORD_REGEX"), None),
    confirmPassword |-> Rule(TRUE, 0, 0, None, None),
    firstName |-> Rule(TRUE, 2, 50, None, None),
    lastName |-> Rule(TRUE, 2, 50, None, None) ]
LoginPasswordRule == Rule(TRUE, 0, 0, None, None)

\* validateField: the type of the first error, or None; confirmValue is
\* None when the argument is not passed
validateFieldMutMatchFirst(value, rule, confirmValue) ==
  IF confirmValue # None /\ value # confirmValue[1] THEN Some("match")
  ELSE IF rule.required /\ (value = <<>> \/ Len(trim(value)) = 0) THEN Some("required")
  ELSE IF value # <<>> /\ rule.minLength # 0 /\ Len(value) < rule.minLength
  THEN Some("minLength")
  ELSE IF value # <<>> /\ rule.maxLength # 0 /\ Len(value) > rule.maxLength
  THEN Some("maxLength")
  ELSE IF value # <<>> /\ rule.pattern # None /\ ~test(rule.pattern[1], value)
  THEN Some("pattern")
  ELSE IF value # <<>> /\ rule.custom # None /\ ~custom(rule.custom[1], value)
  THEN Some("custom")
  ELSE None

validateField(value, rule, confirmValue) ==
  IF rule.required /\ (value = <<>> \/ Len(trim(value)) = 0) THEN Some("required")
  ELSE IF value # <<>> /\ rule.minLength # 0 /\ Len(value) < rule.minLength
  THEN Some("minLength")
  ELSE IF value # <<>> /\ rule.maxLength # 0 /\ Len(value) > rule.maxLength
  THEN Some("maxLength")
  ELSE IF value # <<>> /\ rule.pattern # None /\ ~test(rule.pattern[1], value)
  THEN Some("pattern")
  ELSE IF value # <<>> /\ rule.custom # None /\ ~custom(rule.custom[1], value)
  THEN Some("custom")
  ELSE IF confirmValue # None /\ value # confirmValue[1] THEN Some("match")
  ELSE None

\* values[field] || ''
valueOf(values, field) == IF field \in DOMAIN values THEN values[field] ELSE <<>>

\* the errors object validateForm builds, one entry per field of rules
formErrorsMutAllFields(values, rules) ==
  [field \in DOMAIN rules |->
     validateField(valueOf(values, field), rules[field],
                   IF "password" \in DOMAIN values THEN Some(values.password) ELSE None)]

formErrors(values, rules) ==
  [field \in DOMAIN rules |->
     IF field = "confirmPassword"
     THEN validateField(valueOf(values, field), rules[field],
                        IF "password" \in DOMAIN values THEN Some(values.password)
                        ELSE None)
     ELSE validateField(valueOf(values, field), rules[field], None)]

\* Object.values(errors).every(error => error === undefined)
everyUndefinedMutSome(errors) == \E field \in DOMAIN errors : errors[field] = None

everyUndefined(errors) == \A field \in DOMAIN errors : errors[field] = None

validateForm(values, rules) ==
  [errors |-> formErrors(values, rules), isValid |-> everyUndefined(formErrors(values, rules))]

\* ------------------------------------------------ form engine: options
\* the options of a useForm call; of the six fields of the registration
\* form two are modelled
truthyMutAlways(key) == key # None

truthy(key) == key # None /\ key[1] # ""

Options(key, initial, rules, onChange, onBlur) ==
  [persistenceKey |-> key, initialValues |-> initial, validationRules |-> rules,
   validateOnChange |-> onChange, validateOnBlur |-> onBlur]

RegistrationOptions ==
  Options(Some(persistenceKey), [firstName |-> <<>>, lastName |-> <<>>],
          [firstName |-> validationRules.firstName,
           lastName |-> validationRules.lastName], TRUE, TRUE)
LoginOptions ==
  Options(None, [email |-> <<>>, password |-> <<>>],
          [email |-> validationRules.email, password |-> LoginPasswordRule],
          TRUE, TRUE)

\* the values typed into the first name field of the registration form
FieldValues == {<<>>, <<"J">>}
initialValues == RegistrationOptions.initialValues

\* useState of useForm (isSubmitting of the form state is left out: only
\* setSubmitting touches it); errors and touched are objects, here functions
\* on the keys they hold
useState(options) ==
  [mounted |-> TRUE, options |-> options, values |-> options.initialValues,
   errors |-> <<>>, touched |-> <<>>, isValid |-> FALSE]
Unmounted == [useState(RegistrationOptions) EXCEPT !.mounted = FALSE]

FormBudget0 ==
  [edits |-> 0, ticks |-> 0, mounts |-> 0, clearAlls |-> 0, clears |-> 0,
   attempts |-> 0, lockChecks |-> 0, registers |-> 0, afterReset |-> FALSE]

\* AsyncStorage right after the first start: ThemeProvider's effect has saved
\* the theme mode, no form record exists
FreshStore ==
  [k \in FormKeys \cup {THEME_STORAGE_KEY} |->
     IF k = THEME_STORAGE_KEY THEN Some("system") ELSE None]

\* no form is mounted and no request is pending
FormIdle ==
  /\ formState = Unmounted
  /\ persistTimers = {}
  /\ queue = <<>>
  /\ formResult = None
  /\ formBudget = FormBudget0

Init ==
  /\ now = 0
  /\ authState = initialState
  /\ unlockTimer = {}
  /\ storage = [ currentUser |-> None, users |-> {}, failedAttempts |-> None,
                 lockoutUntil |-> None ]
  /\ keychain = None
  /\ idCounter = 0
  /\ tasks = [s \in Slots |-> IF s = "init"
                              THEN [idleTask EXCEPT !.pc = "getCurrentUser"]
                              ELSE idleTask]
  /\ isSubmitting = FALSE
  /\ biometricEnabled = FALSE
  /\ settled = None
  /\ faults = 0
  /\ restarts = 0
  /\ FormIdle
  /\ asyncStorage = FreshStore

\* ------------------------------------------------------------- clock
\* Date.now() is read only to set lockoutUntil and to compare with it, so
\* the clock is advanced only while a deadline exists
Tick ==
  /\ now < MaxTicks * TickMs
  /\ authState.lockoutUntil # None \/ unlockTimer # {}
  /\ now' = now + TickMs
  /\ Pending
  /\ UNCHANGED <<authState, unlockTimer, storage, keychain, idCounter, tasks,
                 isSubmitting, biometricEnabled, faults, restarts>>

\* a handler is started only while fewer than MaxInFlight are running
InFlight == Cardinality({s \in Slots : tasks[s].pc \notin {"idle", "timer"}})
CanStart == InFlight < MaxInFlight

\* ------------------------------------------------ AuthContext.login
Set(t, pc) == [tasks EXCEPT ![t].pc = pc]
Done(t) == [tasks EXCEPT ![t] = idleTask]

\* handleBiometricLogin(showErrorAlert): true for the biometric button, false
\* for the automatic attempt; handleSubmit is not a biometric handler
showErrorAlert(t) == t = "bio"

\* the catch block of handleBiometricLogin: an alert unless the error is a
\* user cancellation (its message contains 'cancel') or alerts are off
isUserCancel(error) == error = "PromptCancelled"

BiometricCatchAlert(t, error) ==
  IF showErrorAlert(t) /\ ~isUserCancel(error)
  THEN Some("Unable to authenticate with biometrics")
  ELSE None

\* the catch block of AuthContext.login: LOGIN_FAILURE, then
\* INCREMENT_FAILED_ATTEMPTS, then the error is re-thrown to the handler,
\* whose finally block calls setSubmitting(false)
LoginFailure(t, error) ==
  /\ Commit(authReducer(authReducer(authState, Act("LOGIN_FAILURE")),
                        Act("INCREMENT_FAILED_ATTEMPTS")),
            Done(t), keychain)
  /\ isSubmitting' = FALSE
  /\ SettleAlert(t, error, BiometricCatchAlert(t, error))

\* the synchronous head of AuthContext.login, up to the first await of
\* authenticationService.login.  isLocked is authState.isLocked of the
\* render whose closure makes the call.  (lockedAtCall records, for the
\* properties, whether the account was locked when the call was made.)
LoginHead(t, isLocked, email, password) ==
  IF isLocked
  THEN /\ tasks' = Done(t)
       /\ isSubmitting' = FALSE
       /\ SettleAlert(t, "LockedOut", BiometricCatchAlert(t, "LockedOut"))
       /\ UNCHANGED <<authState, unlockTimer, biometricEnabled>>
  ELSE /\ Commit(authReducer(authState, Act("LOGIN_START")),
                 [tasks EXCEPT ![t].pc = "getUsers", ![t].email = email,
                               ![t].password = password,
                               ![t].lockedAtCall = authState.isLocked],
                 keychain)
       /\ isSubmitting' = TRUE
       /\ Pending

\* getStoredUsers: a rejected read yields the empty table
getStoredUsers(ok) == IF ok THEN storage.users ELSE {}

\* Object.values(users).find(...): the first user, in insertion order, whose
\* e-mail equals the given one ignoring case
FindByEmail(users, email) ==
  LET m == {u \in users : toLowerCase(u.email) = toLowerCase(email)}
  IN IF m = {} THEN None
     ELSE Some(CHOOSE u \in m : \A v \in m : u.id <= v.id)

\* authenticationService.login, first await: the user table is read
LoginGetUsers(t) ==
  /\ t \in LoginSlots
  /\ tasks[t].pc = "getUsers"
  /\ \E ok \in Outcomes :
       /\ Fault(ok)
       /\ LET user == FindByEmail(getStoredUsers(ok), tasks[t].email)
          IN IF user = None
             THEN LoginFailure(t, "InvalidCredentials")
             ELSE /\ tasks' = [tasks EXCEPT ![t].pc = "setSession", ![t].user = user]
                  /\ Pending
                  /\ UNCHANGED <<authState, unlockTimer, isSubmitting, biometricEnabled>>
  /\ UNCHANGED <<now, storage, keychain, idCounter, restarts>>

\* authenticationService.login, second await: the current user is written
\* (changedSession records, for the properties, whether this write replaced
\* a different session record)
LoginSetSession(t) ==
  /\ t \in LoginSlots
  /\ tasks[t].pc = "setSession"
  /\ \E ok \in Outcomes :
       /\ Fault(ok)
       /\ IF ok
          THEN /\ storage' = [storage EXCEPT !.currentUser = tasks[t].user]
               /\ tasks' = [tasks EXCEPT ![t].pc = "storeCredentials",
                                         ![t].changedSession =
                                           (storage.currentUser # tasks[t].user)]
               /\ Pending
               /\ UNCHANGED <<authState, unlockTimer, isSubmitting, biometricEnabled>>
          ELSE /\ LoginFailure(t, "StorageFailure")
               /\ UNCHANGED storage
  /\ UNCHANGED <<now, keychain, idCounter, restarts>>

\* AuthContext.login, await of secureStorageService.storeCredentials, then
\* LOGIN_SUCCESS and RESET_FAILED_ATTEMPTS
LoginStoreCredentials(t) ==
  /\ t \in LoginSlots
  /\ tasks[t].pc = "storeCredentials"
  /\ \E ok \in Outcomes :
       /\ Fault(ok)
       /\ IF ok
          THEN LET kc == Some([username |-> tasks[t].email, password |-> tasks[t].password])
               IN /\ keychain' = kc
                  /\ Commit(authReducer(authReducer(authState,
                                          ActP("LOGIN_SUCCESS", tasks[t].user[1])),
                                        Act("RESET_FAILED_ATTEMPTS")),
                            Done(t), kc)
                  /\ isSubmitting' = FALSE
                  /\ Settle(t, "ok")
          ELSE /\ LoginFailure(t, "StorageFailure")
               /\ UNCHANGED keychain
  /\ UNCHANGED <<now, storage, idCounter, restarts>>

\* ------------------------------------------------------- LoginScreen
\* handleSubmit: the lock check, validate() (the inputs drawn are valid
\* ones; an invalid form returns without calling login), setSubmitting(true)
\* and the call of login.  The button is disabled while isSubmitting.
handleSubmit(email, password) ==
  /\ ~authState.isAuthenticated
  /\ CanStart
  /\ ~isSubmitting
  /\ tasks["submit"].pc = "idle"
  /\ IF authState.isLocked
     THEN /\ Settle("submit", "LockedOut")
          /\ UNCHANGED <<authState, unlockTimer, tasks, isSubmitting, biometricEnabled>>
     ELSE LoginHead("submit", authState.isLocked, email, password)
  /\ UNCHANGED <<now, storage, keychain, idCounter, faults, restarts>>

\* handleBiometricLogin(true), pressed on the biometric button, up to the
\* await of getCredentials; the closure keeps this render's isLocked
handleBiometricLogin ==
  /\ ~authState.isAuthenticated
  /\ CanStart
  /\ biometricEnabled
  /\ tasks["bio"].pc = "idle"
  /\ IF authState.isLocked
     THEN /\ SettleAlert("bio", "LockedOut", Some("Account Locked"))
          /\ UNCHANGED <<tasks, isSubmitting>>
     ELSE /\ tasks' = [tasks EXCEPT !["bio"] =
                         [idleTask EXCEPT !.pc = "getCredentials",
                                          !.isLocked = authState.isLocked]]
          /\ isSubmitting' = TRUE
          /\ Pending
  /\ UNCHANGED <<now, authState, unlockTimer, storage, keychain, idCounter,
                 biometricEnabled, faults, restarts>>

\* the 500 ms timeout of attemptBiometricLogin fires handleBiometricLogin(false)
\* of the render that ran the effect
autoBiometricTimer ==
  /\ tasks["auto"].pc = "timer"
  /\ CanStart
  /\ IF tasks["auto"].isLocked
     THEN /\ tasks' = Done("auto")
          /\ Settle("auto", "LockedOut")
          /\ UNCHANGED isSubmitting
     ELSE /\ tasks' = Set("auto", "getCredentials")
          /\ isSubmitting' = TRUE
          /\ Pending
  /\ UNCHANGED <<now, authState, unlockTimer, storage, keychain, idCounter,
                 biometricEnabled, faults, restarts>>

\* the outcome of the biometric / passcode prompt of
\* Keychain.getInternetCredentials
PromptOutcomes == {"granted", "cancelled"}

\* secureStorageService.getCredentials: the stored pair when the user passes
\* the prompt; null when nothing is stored, and null as well when the prompt
\* is cancelled or fails, because the rejection is caught and logged
getInternetCredentials(outcome) == IF outcome = "granted" THEN keychain ELSE None

\* the else branch of handleBiometricLogin: no credentials were returned
NoCredentialsMutCountsFailure(t, outcome) ==
  /\ Commit(authReducer(authState, Act("INCREMENT_FAILED_ATTEMPTS")), Done(t), keychain)
  /\ isSubmitting' = FALSE
  /\ SettleAlert(t, IF keychain # None /\ outcome = "cancelled"
                    THEN "PromptCancelled" ELSE "NoCredentials",
                 IF showErrorAlert(t) THEN Some("No saved credentials found") ELSE None)

NoCredentials(t, outcome) ==
  /\ tasks' = Done(t)
  /\ isSubmitting' = FALSE
  /\ SettleAlert(t, IF keychain # None /\ outcome = "cancelled"
                    THEN "PromptCancelled" ELSE "NoCredentials",
                 IF showErrorAlert(t) THEN Some("No saved credentials found") ELSE None)
  /\ UNCHANGED <<authState, unlockTimer, biometricEnabled>>

\* handleBiometricLogin after the await of getCredentials: with credentials
\* it calls login through the closure it was created in
getCredentials(t) ==
  /\ t \in {"bio", "auto"}
  /\ tasks[t].pc = "getCredentials"
  /\ \E outcome \in PromptOutcomes :
       LET credentials == getInternetCredentials(outcome)
       IN IF credentials # None
          THEN LoginHead(t, tasks[t].isLocked, credentials[1].username,
                         credentials[1].password)
          ELSE NoCredentials(t, outcome)
  /\ UNCHANGED <<now, storage, keychain, idCounter, faults, restarts>>

\* --------------------------------------------- AuthContext.register
\* the catch block of AuthContext.register: REGISTER_FAILURE, re-throw
RegisterFailure(error) ==
  /\ Commit(authReducer(authState, Act("REGISTER_FAILURE")), Done("register"), keychain)
  /\ Settle("register", error)

\* RegistrationScreen.handleSubmit up to the first await of
\* authenticationService.register: validate(), setSubmitting(true),
\* REGISTER_START.  The button is disabled while the form is submitting.
handleRegister(email, password) ==
  /\ ~authState.isAuthenticated
  /\ CanStart
  /\ tasks["register"].pc = "idle"
  /\ idCounter < MaxUsers
  /\ Commit(authReducer(authState, Act("REGISTER_START")),
            [tasks EXCEPT !["register"] =
               [idleTask EXCEPT !.pc = "getUsers", !.email = email, !.password = password]],
            keychain)
  /\ Pending
  /\ UNCHANGED <<now, storage, keychain, idCounter, isSubmitting, faults, restarts>>

\* the duplicate check of authenticationService.register
ExistingUserMutCaseSensitive(users, email) ==
  LET m == {u \in users : u.email = email}
  IN IF m = {} THEN None ELSE Some(CHOOSE u \in m : TRUE)

ExistingUser(users, email) == FindByEmail(users, email)

\* the user built by authenticationService.register (firstName, lastName,
\* phoneNumber and createdAt are copied into the record and read by no
\* operation; they are left out)
NewUser(id, email) == [id |-> id, email |-> toLowerCase(email)]

\* authenticationService.register, first await: the table is read, the
\* duplicate check made, the user built and added to the local copy
RegisterGetUsers ==
  /\ tasks["register"].pc = "getUsers"
  /\ \E ok \in Outcomes :
       /\ Fault(ok)
       /\ LET users == getStoredUsers(ok)
              newUser == NewUser(idCounter + 1, tasks["register"].email)
          IN IF ExistingUser(users, tasks["register"].email) # None
             THEN /\ RegisterFailure("DuplicateEmail")
                  /\ UNCHANGED idCounter
             ELSE /\ idCounter' = idCounter + 1
                  /\ tasks' = [tasks EXCEPT !["register"].pc = "storeUsers",
                                            !["register"].user = Some(newUser),
                                            !["register"].users = users \cup {newUser}]
                  /\ Pending
                  /\ UNCHANGED <<authState, unlockTimer, biometricEnabled>>
  /\ UNCHANGED <<now, storage, keychain, isSubmitting, restarts>>

\* storeUsers: the local copy of the table replaces the stored one
RegisterStoreUsers ==
  /\ tasks["register"].pc = "storeUsers"
  /\ \E ok \in Outcomes :
       /\ Fault(ok)
       /\ IF ok
          THEN /\ storage' = [storage EXCEPT !.users = tasks["register"].users]
               /\ tasks' = Set("register", "setSession")
               /\ Pending
               /\ UNCHANGED <<authState, unlockTimer, biometricEnabled>>
          ELSE /\ RegisterFailure("StorageFailure")
               /\ UNCHANGED storage
  /\ UNCHANGED <<now, keychain, idCounter, isSubmitting, restarts>>

\* AsyncStorage.setItem(USER_STORAGE_KEY, newUser)
RegisterSetSession ==
  /\ tasks["register"].pc = "setSession"
  /\ \E ok \in Outcomes :
       /\ Fault(ok)
       /\ IF ok
          THEN /\ storage' = [storage EXCEPT !.currentUser = tasks["register"].user]
               /\ tasks' = Set("register", "storeCredentials")
               /\ Pending
               /\ UNCHANGED <<authState, unlockTimer, biometricEnabled>>
          ELSE /\ RegisterFailure("StorageFailure")
               /\ UNCHANGED storage
  /\ UNCHANGED <<now, keychain, idCounter, isSubmitting, restarts>>

\* AuthContext.register, await of storeCredentials, then REGISTER_SUCCESS
RegisterStoreCredentials ==
  /\ tasks["register"].pc = "storeCredentials"
  /\ \E ok \in Outcomes :
       /\ Fault(ok)
       /\ IF ok
          THEN LET kc == Some([username |-> tasks["register"].email,
                               password |-> tasks["register"].password])
               IN /\ keychain' = kc
                  /\ Commit(authReducer(authState,
                                        ActP("REGISTER_SUCCESS", tasks["register"].user[1])),
                            Done("register"), kc)
                  /\ Settle("register", "ok")
          ELSE /\ RegisterFailure("StorageFailure")
               /\ UNCHANGED keychain
  /\ UNCHANGED <<now, storage, idCounter, isSubmitting, restarts>>

\* ----------------------------------------------- AuthContext.logout
\* the catch block of AuthContext.logout: the state is cleared and the
\* promise resolves
LogoutCatchMutRethrow ==
  /\ tasks' = Done("logout")
  /\ Settle("logout", "LogoutFailed")
  /\ UNCHANGED <<authState, unlockTimer, biometricEnabled>>

LogoutCatch ==
  /\ Commit(authReducer(authState, Act("LOGOUT")), Done("logout"), keychain)
  /\ Settle("logout", "ok")

\* HomeScreen.performLogout up to the first await of
\* authenticationService.logout
performLogout ==
  /\ authState.isAuthenticated
  /\ CanStart
  /\ tasks["logout"].pc = "idle"
  /\ tasks' = [tasks EXCEPT !["logout"] = [idleTask EXCEPT !.pc = "removeSession"]]
  /\ Pending
  /\ UNCHANGED <<now, authState, unlockTimer, storage, keychain, idCounter,
                 isSubmitting, biometricEnabled, faults, restarts>>

\* AsyncStorage.removeItem(USER_STORAGE_KEY); a rejection is re-thrown by
\* authenticationService.logout as 'Failed to logout'
LogoutRemoveSession ==
  /\ tasks["logout"].pc = "removeSession"
  /\ \E ok \in Outcomes :
       /\ Fault(ok)
       /\ IF ok
          THEN /\ storage' = [storage EXCEPT !.currentUser = None]
               /\ tasks' = Set("logout", "resetFailedAttempts")
               /\ Pending
               /\ UNCHANGED <<authState, unlockTimer, biometricEnabled>>
          ELSE /\ LogoutCatch
               /\ UNCHANGED storage
  /\ UNCHANGED <<now, keychain, idCounter, isSubmitting, restarts>>

\* resetFailedAttempts: both removals; a rejection is logged and swallowed
LogoutResetFailedAttempts ==
  /\ tasks["logout"].pc = "resetFailedAttempts"
  /\ \E ok \in Outcomes :
       /\ Fault(ok)
       /\ storage' = IF ok THEN [storage EXCEPT !.failedAttempts = None,
                                                !.lockoutUntil = None]
                     ELSE storage
  /\ tasks' = Set("logout", "clearCredentials")
  /\ Pending
  /\ UNCHANGED <<now, authState, unlockTimer, keychain, idCounter, isSubmitting,
                 biometricEnabled, restarts>>

\* secureStorageService.clearCredentials, then LOGOUT
LogoutClearCredentials ==
  /\ tasks["logout"].pc = "clearCredentials"
  /\ \E ok \in Outcomes :
       /\ Fault(ok)
       /\ IF ok
          THEN /\ keychain' = None
               /\ Commit(authReducer(authState, Act("LOGOUT")), Done("logout"), None)
               /\ Settle("logout", "ok")
          ELSE /\ LogoutCatch
               /\ UNCHANGED keychain
  /\ UNCHANGED <<now, storage, idCounter, isSubmitting, restarts>>

\* ------------------------------------------------- initializeAuth
\* getCurrentUser: a rejected read yields null
getCurrentUser(ok) == IF ok THEN storage.currentUser ELSE None

InitDispatchMutNoCheck(currentUser) ==
  [authState EXCEPT !.isAuthenticated = TRUE, !.user = currentUser, !.isLoading = FALSE]

InitDispatchMutKeepLoading(currentUser) ==
  IF currentUser # None
  THEN authReducer(authState, ActP("RESTORE_SESSION", currentUser[1]))
  ELSE authState

InitDispatch(currentUser) ==
  IF currentUser # None
  THEN authReducer(authState, ActP("RESTORE_SESSION", currentUser[1]))
  ELSE authReducer(authState, ActP("SET_LOADING", FALSE))

initializeAuth ==
  /\ tasks["init"].pc = "getCurrentUser"
  /\ \E ok \in Outcomes :
       /\ Fault(ok)
       /\ Commit(InitDispatch(getCurrentUser(ok)), Done("init"), keychain)
  /\ Settle("init", "ok")
  /\ UNCHANGED <<now, storage, keychain, idCounter, isSubmitting, restarts>>

\* ------------------------------------------------- unlock timer
\* the timeout callback of the unlock effect; it runs no earlier than the
\* deadline it was set for
unlockTimerFires ==
  \E lockoutUntil \in unlockTimer :
    /\ now >= lockoutUntil
    /\ IF now >= lockoutUntil
       THEN /\ authState' = authReducer(authState, Act("UNLOCK_ACCOUNT"))
            /\ tasks' = attemptBiometricLogin(FALSE, authState, authState', tasks, keychain)
       ELSE UNCHANGED <<authState, tasks>>
    /\ unlockTimer' = UnlockEffect(authState, authState', unlockTimer \ {lockoutUntil})
    /\ Pending
    /\ UNCHANGED <<now, storage, keychain, idCounter, isSubmitting, biometricEnabled,
                   faults, restarts>>

\* ------------------------------------------------- process restart
\* the process is killed and started again: memory is lost, AsyncStorage and
\* the keychain are kept
Restart ==
  /\ restarts < MaxRestarts
  /\ restarts' = restarts + 1
  /\ Started(keychain)
  /\ UNCHANGED <<now, storage, keychain, idCounter, faults>>

Next ==
  \/ Tick /\ UNCHANGED formVars
  \/ \E i \in LoginInputs : handleSubmit(i[1], i[2]) /\ UNCHANGED formVars
  \/ handleBiometricLogin /\ UNCHANGED formVars
  \/ autoBiometricTimer /\ UNCHANGED formVars
  \/ \E t \in {"bio", "auto"} : getCredentials(t) /\ UNCHANGED formVars
  \/ \E t \in LoginSlots : LoginGetUsers(t) /\ UNCHANGED formVars
  \/ \E t \in LoginSlots : LoginSetSession(t) /\ UNCHANGED formVars
  \/ \E t \in LoginSlots : LoginStoreCredentials(t) /\ UNCHANGED formVars
  \/ \E i \in RegisterInputs : handleRegister(i[1], i[2]) /\ UNCHANGED formVars
  \/ RegisterGetUsers /\ UNCHANGED formVars
  \/ RegisterStoreUsers /\ UNCHANGED formVars
  \/ RegisterSetSession /\ UNCHANGED formVars
  \/ RegisterStoreCredentials /\ UNCHANGED formVars
  \/ performLogout /\ UNCHANGED formVars
  \/ LogoutRemoveSession /\ UNCHANGED formVars
  \/ LogoutResetFailedAttempts /\ UNCHANGED formVars
  \/ LogoutClearCredentials /\ UNCHANGED formVars
  \/ initializeAuth /\ UNCHANGED formVars
  \/ unlockTimerFires /\ UNCHANGED formVars
  \/ Restart /\ UNCHANGED formVars

Spec == Init /\ [][Next]_vars

\* ================================================================ claims
\* the step settles the promise of handler t with result r
Settles(t, r) == settled' # None /\ settled'[1].task = t /\ settled'[1].result = r
Settled(t, r) == settled # None /\ settled[1].task = t /\ settled[1].result = r
LoginFails(t) == Settles(t, "InvalidCredentials") \/ Settles(t, "StorageFailure")
LockFields(state) == <<state.failedAttempts, state.isLocked, state.lockoutUntil>>
Deadline == authState.lockoutUntil[1]

\* C1: from an unlocked account with fewer than five failures, every failed
\* login adds exactly 1 to failedAttempts; up to the fourth failure the
\* account stays unlocked with no lockoutUntil, and the fifth locks it with
\* lockoutUntil = time of that failure + 15 minutes.
C1_FailedLoginCountsAndLocks ==
  [][\A t \in LoginSlots :
       (LoginFails(t) /\ authState.failedAttempts < LOCKOUT_THRESHOLD) =>
         LET n == authState.failedAttempts + 1
         IN /\ authState'.failedAttempts = n
            /\ (n < LOCKOUT_THRESHOLD =>
                  ~authState'.isLocked /\ authState'.lockoutUntil = None)
            /\ (n = LOCKOUT_THRESHOLD =>
                  authState'.isLocked /\ authState'.lockoutUntil = Some(now + LOCKOUT_MS))]_vars

C1_Witness ==
  /\ settled # None
  /\ settled[1].task \in LoginSlots
  /\ settled[1].result = "InvalidCredentials"
  /\ authState.failedAttempts = LOCKOUT_THRESHOLD
  /\ authState.isLocked
  /\ authState.lockoutUntil = Some(now + LOCKOUT_MS)

\* C2: a login call made while the account is locked and the deadline has not
\* passed is rejected with LockedOut and leaves failedAttempts, isLocked and
\* lockoutUntil as they were.
LoginCalled(t) ==
  \/ tasks[t].pc \in {"idle", "getCredentials"} /\ tasks'[t].pc = "getUsers"
  \/ Settles(t, "LockedOut")

C2_LockedLoginRejected ==
  [][(authState.isLocked /\ authState.lockoutUntil # None /\ now < Deadline) =>
       \A t \in LoginSlots :
         LoginCalled(t) =>
           Settles(t, "LockedOut") /\ LockFields(authState') = LockFields(authState)]_vars

\* C3: while the account is locked no login attempt issues a call to the
\* credential vault or to the session/user store.
CollaboratorCalls == {"getCredentials", "getUsers", "setSession", "storeCredentials"}

C3_NoCollaboratorCallWhileLocked ==
  [][authState.isLocked =>
       \A t \in LoginSlots :
         ~(tasks'[t].pc \in CollaboratorCalls /\ tasks'[t].pc # tasks[t].pc)]_vars

\* C4: a login or a registration that completes successfully leaves
\* failedAttempts = 0, isLocked = false and lockoutUntil absent.
C4_SuccessResetsLockout ==
  [][\A t \in LoginSlots \cup {"register"} :
       Settles(t, "ok") => LockFields(authState') = <<0, FALSE, None>>]_vars

C4_Witness ==
  /\ settled # None
  /\ settled[1].task \in LoginSlots \cup {"register"}
  /\ settled[1].result = "ok"
  /\ authState.isAuthenticated
  /\ LockFields(authState) = <<0, FALSE, None>>

\* C5: in every reachable state isLocked is true exactly when lockoutUntil is
\* present and later than the current time.
C5_LockedIffDeadlineInFuture ==
  authState.isLocked <=> (authState.lockoutUntil # None /\ Deadline > now)

\* C6: in every reachable state isAuthenticated implies that user is present.
C6_AuthenticatedHasUser ==
  authState.isAuthenticated => authState.user # None

C6_Witness ==
  /\ Settled("init", "ok")
  /\ authState.isAuthenticated
  /\ authState.user # None
  /\ authState.user = storage.currentUser
  /\ authState.user[1].email = LowerEmail

\* C7: a successful register stores and returns a user whose e-mail is the
\* submitted one in lower case and makes it the persisted current session; a
\* register whose e-mail equals, ignoring case, that of a user already in the
\* table fails with the duplicate-email error and leaves the table as it was.
RegisterReadsTable ==
  /\ tasks["register"].pc = "getUsers"
  /\ tasks'["register"].pc # "getUsers"
  /\ restarts' = restarts

C7_RegisterLowerCasesAndRejectsDuplicates ==
  [][/\ Settles("register", "ok") =>
          /\ authState'.user # None
          /\ authState'.user[1].email = toLowerCase(tasks["register"].email)
          /\ authState'.user[1] \in storage'.users
          /\ storage'.currentUser = authState'.user
     /\ (RegisterReadsTable /\ FindByEmail(storage.users, tasks["register"].email) # None) =>
          /\ Settles("register", "DuplicateEmail")
          /\ storage'.users = storage.users]_vars

\* C8: a login made while the account is not locked whose e-mail matches no
\* stored user fails with the invalid-credentials error, adds exactly 1 to
\* failedAttempts and leaves the state unauthenticated with no user.
LoginReadsTable(t) ==
  /\ tasks[t].pc = "getUsers"
  /\ tasks'[t].pc # "getUsers"
  /\ restarts' = restarts
  /\ ~tasks[t].lockedAtCall

C8_UnknownEmailFails ==
  [][\A t \in LoginSlots :
       (LoginReadsTable(t) /\ FindByEmail(storage.users, tasks[t].email) = None) =>
         /\ Settles(t, "InvalidCredentials")
         /\ authState'.failedAttempts = authState.failedAttempts + 1
         /\ ~authState'.isAuthenticated
         /\ authState'.user = None]_vars

\* C9: a login made while the account is not locked whose e-mail matches a
\* stored user ignoring case, and whose storage writes succeed, ends
\* authenticated as that user, with the persisted current session equal to
\* that user and the keychain holding the submitted e-mail and password.
C9_KnownEmailLogsIn ==
  [][\A t \in LoginSlots :
       /\ (LoginReadsTable(t) /\ FindByEmail(storage.users, tasks[t].email) # None) =>
            /\ tasks'[t].pc = "setSession"
            /\ tasks'[t].user = FindByEmail(storage.users, tasks[t].email)
       /\ (Settles(t, "ok") /\ ~tasks[t].lockedAtCall) =>
            /\ authState'.isAuthenticated
            /\ authState'.user = tasks[t].user
            /\ storage'.currentUser = tasks[t].user
            /\ keychain' = Some([username |-> tasks[t].email,
                                 password |-> tasks[t].password])]_vars

\* C10: logout always resolves without error, whichever of its storage and
\* keychain calls fail, and leaves the state unauthenticated, with no user,
\* not loading, failedAttempts = 0, unlocked and with no lockoutUntil.
C10_LogoutAlwaysSucceeds ==
  [][(settled' # None /\ settled'[1].task = "logout") =>
       /\ settled'[1].result = "ok"
       /\ authState' = [ isAuthenticated |-> FALSE, user |-> None, isLoading |-> FALSE,
                         failedAttempts |-> 0, isLocked |-> FALSE,
                         lockoutUntil |-> None ]]_vars

C10_Witness ==
  /\ Settled("logout", "ok")
  /\ faults > 0
  /\ keychain # None
  /\ ~authState.isAuthenticated

\* C11: when logout completes, the persisted current-session record is absent
\* and the keychain holds no credentials.
C11_LogoutClearsSessionAndVault ==
  [][Settles("logout", "ok") =>
       storage'.currentUser = None /\ keychain' = None]_vars

\* C12: the process starts unauthenticated with isLoading = true; the step
\* that completes initialization ends authenticated with the persisted user
\* exactly when a current-session record exists and its read succeeded, and
\* unauthenticated otherwise; it sets isLoading = false and changes neither
\* the lock fields nor the keychain.
InitCompletes == Settles("init", "ok")
SessionRead == storage.currentUser # None /\ faults' = faults

C12_InitRestoresPersistedSession ==
  /\ ~authState.isAuthenticated /\ authState.isLoading
  /\ [][/\ restarts' # restarts => ~authState'.isAuthenticated /\ authState'.isLoading
        /\ InitCompletes =>
             /\ SessionRead => authState'.isAuthenticated /\ authState'.user = storage.currentUser
             /\ ~SessionRead => ~authState'.isAuthenticated /\ authState'.user = None
             /\ ~authState'.isLoading
             /\ LockFields(authState') = LockFields(authState)
             /\ keychain' = keychain]_vars

\* C12 (amended): as above, except that when no session record was read the
\* completing step leaves isAuthenticated and user as they are: a login or a
\* registration that completed while the read was pending stays in effect.
C12_InitRestoresOrKeeps ==
  /\ ~authState.isAuthenticated /\ authState.isLoading
  /\ [][/\ restarts' # restarts => ~authState'.isAuthenticated /\ authState'.isLoading
        /\ InitCompletes =>
             /\ SessionRead => authState'.isAuthenticated /\ authState'.user = storage.currentUser
             /\ ~SessionRead => /\ authState'.isAuthenticated = authState.isAuthenticated
                                /\ authState'.user = authState.user
             /\ ~authState'.isLoading
             /\ LockFields(authState') = LockFields(authState)
             /\ keychain' = keychain]_vars

C12_Witness ==
  /\ Settled("init", "ok")
  /\ restarts = 1
  /\ authState.isAuthenticated
  /\ ~authState.isLoading
  /\ authState.user = storage.currentUser
  /\ keychain # None

\* C13: at most one login call (from manual submit, manual biometric or
\* automatic biometric) is in flight in any reachable state.
LoginInFlight(t) == tasks[t].pc \in {"getUsers", "setSession", "storeCredentials"}

C13_OneLoginInFlight ==
  Cardinality({t \in LoginSlots : LoginInFlight(t)}) <= 1

\* C14: a biometric attempt, manual or automatic, whose prompt is cancelled or
\* yields no credentials leaves failedAttempts, isLocked and lockoutUntil as
\* they were; one that retrieves credentials and then fails the user lookup
\* adds exactly 1 to failedAttempts.
C14_BiometricCancelNotCounted ==
  [][\A t \in {"bio", "auto"} :
       /\ (Settles(t, "PromptCancelled") \/ Settles(t, "NoCredentials")) =>
            LockFields(authState') = LockFields(authState)
       /\ Settles(t, "InvalidCredentials") =>
            authState'.failedAttempts = authState.failedAttempts + 1]_vars

C14_WitnessCancelled ==
  /\ settled # None
  /\ settled[1].task \in {"bio", "auto"}
  /\ settled[1].result = "PromptCancelled"
  /\ keychain # None
  /\ authState.failedAttempts > 0

\* C15: a manual biometric login whose prompt the user cancels shows no
\* alert, and in particular not the alert of a failed authentication.
C15_ManualCancelShowsNoAlert ==
  [][Settles("bio", "PromptCancelled") => settled'[1].alert = None]_vars

\* ============================================================ form engine
\* useForm of RegistrationScreen with formPersistenceService underneath.
\* AsyncStorage serves the requests of the form engine one at a time, in the
\* order they were made: queue holds the requests not yet completed.
authRest == <<authState, unlockTimer, keychain, idCounter, tasks, isSubmitting,
              biometricEnabled, settled, restarts>>

Req(op, caller, key, value, keys, mount) ==
  [op |-> op, caller |-> caller, key |-> key, value |-> value, keys |-> keys,
   mount |-> mount]
Result(op, ok, data) == [op |-> op, ok |-> ok, data |-> data]

\* the persistence effect of useForm, deps [values, persistenceKey]: the
\* cleanup of the previous run clears its timeout, then a new 500 ms timeout
\* is set whose callback saves the values of this render
\* (armedAt records, for the properties, when the timeout was set)
ArmedTimerMutNoDelay(values) == [due |-> now, values |-> values, armedAt |-> now]

ArmedTimer(values) == [due |-> now + DEBOUNCE_MS, values |-> values, armedAt |-> now]

PersistEffectMutNoCleanup(timers, values) == timers \cup {ArmedTimer(values)}

PersistEffect(timers, values) == {ArmedTimer(values)}

\* the persistence effect as a render runs it: the cleanup of the previous
\* run first, then a timeout if persistenceKey is set and values has keys
RunPersistEffect(st) ==
  IF truthy(st.options.persistenceKey) /\ DOMAIN st.values # {}
  THEN PersistEffect(persistTimers, st.values)
  ELSE {}

\* { ...obj, [field]: v }
Put(obj, field, v) ==
  [f \in DOMAIN obj \cup {field} |-> IF f = field THEN v ELSE obj[f]]
isTouched(st, field) == field \in DOMAIN st.touched /\ st.touched[field]
\* formState.errors[field], undefined when the object has no such key
errorOf(st, field) == IF field \in DOMAIN st.errors THEN st.errors[field] ELSE None

\* the validation effect, deps [values, validationRules, validateOnChange,
\* touched]: both screens pass a new validationRules object in every render,
\* so it runs after every state change and, once a field is touched, sets
\* errors and isValid from validateForm over all fields
ValidateEffectMutOff(st) == st

ValidateEffect(st) ==
  IF st.options.validateOnChange /\ DOMAIN st.touched # {}
  THEN [st EXCEPT !.errors = validateForm(st.values, st.options.validationRules).errors,
                  !.isValid = validateForm(st.values, st.options.validationRules).isValid]
  ELSE st

\* a form mounts: state is initialValues; if persistenceKey is set,
\* loadPersistedData calls getFormData (the getItem is requested); the
\* persistence effect runs
FormMount(options) ==
  /\ ~formState.mounted
  /\ formBudget.mounts < MaxMounts
  /\ Len(queue) < MaxQueue
  /\ formState' = useState(options)
  /\ persistTimers' = RunPersistEffect(formState')
  /\ queue' = IF truthy(options.persistenceKey)
              THEN Append(queue, Req("getItem", "load",
                                     getStorageKey(options.persistenceKey[1]),
                                     None, {}, formBudget.mounts + 1))
              ELSE queue
  /\ formBudget' = [formBudget EXCEPT !.mounts = @ + 1, !.afterReset = FALSE]
  /\ formResult' = None
  /\ UNCHANGED <<now, storage, faults, asyncStorage>>
  /\ UNCHANGED authRest

\* handleChange: setValue makes a new values object, so the persistence
\* effect runs again; the field's error is set from a validation of that
\* field alone if validateOnChange and the field is touched; then the
\* validation effect runs
handleChange(field, value) ==
  /\ formState.mounted
  /\ field \in DOMAIN formState.values
  /\ value # formState.values[field]
  /\ formBudget.edits < MaxEdits
  /\ LET rules == formState.options.validationRules
         changed == [formState EXCEPT !.values = Put(@, field, value)]
         checked ==
           IF formState.options.validateOnChange /\ isTouched(formState, field)
              /\ field \in DOMAIN rules
           THEN [changed EXCEPT !.errors =
                   Put(@, field, formErrors(field :> value, field :> rules[field])[field])]
           ELSE changed
     IN formState' = ValidateEffect(checked)
  /\ persistTimers' = RunPersistEffect(formState')
  /\ formBudget' = [formBudget EXCEPT !.edits = @ + 1, !.afterReset = FALSE]
  /\ formResult' = None
  /\ UNCHANGED <<now, storage, faults, asyncStorage, queue>>
  /\ UNCHANGED authRest

\* handleBlur: the field becomes touched and, if validateOnBlur, gets the
\* error validateForm finds for it in the current values; values keeps its
\* identity, so the persistence effect does not run
handleBlur(field) ==
  /\ formState.mounted
  /\ field \in DOMAIN formState.values
  /\ LET rules == formState.options.validationRules
         touched == [formState EXCEPT !.touched = Put(@, field, TRUE)]
         checked ==
           IF formState.options.validateOnBlur /\ field \in DOMAIN rules
           THEN [touched EXCEPT !.errors =
                   Put(@, field, formErrors(formState.values, field :> rules[field])[field])]
           ELSE touched
     IN formState' = ValidateEffect(checked)
  /\ formResult' = None
  /\ UNCHANGED <<now, storage, faults, asyncStorage, queue, persistTimers, formBudget>>
  /\ UNCHANGED authRest

\* validate: errors and isValid of the whole form, every field of the rules
\* becomes touched
validate ==
  /\ formState.mounted
  /\ LET rules == formState.options.validationRules
     IN formState' = ValidateEffect(
          [formState EXCEPT !.errors = validateForm(formState.values, rules).errors,
                            !.isValid = validateForm(formState.values, rules).isValid,
                            !.touched = [f \in DOMAIN rules |-> TRUE]])
  /\ formResult' = None
  /\ UNCHANGED <<now, storage, faults, asyncStorage, queue, persistTimers, formBudget>>
  /\ UNCHANGED authRest

\* a debounce timeout fires, no earlier than it is due: persistFormData calls
\* saveFormData, which stamps the values with Date.now() and requests setItem
persistTimerFires ==
  /\ Len(queue) < MaxQueue
  /\ \E tm \in persistTimers :
       /\ now >= tm.due
       /\ persistTimers' = persistTimers \ {tm}
       /\ queue' = Append(queue, Req("setItem", "save",
                                     getStorageKey(formState.options.persistenceKey[1]),
                                     Some([data |-> tm.values, timestamp |-> now]),
                                     {}, formBudget.mounts))
  /\ formResult' = None
  /\ UNCHANGED <<now, storage, faults, asyncStorage, formState, formBudget>>
  /\ UNCHANGED authRest

\* the form unmounts: the cleanup of the persistence effect clears the timeout
FormUnmount ==
  /\ formState.mounted
  /\ formState' = Unmounted
  /\ persistTimers' = {}
  /\ formResult' = None
  /\ formBudget' = [formBudget EXCEPT !.afterReset = FALSE]
  /\ UNCHANGED <<now, storage, faults, asyncStorage, queue>>
  /\ UNCHANGED authRest

\* useForm.clearPersistedData up to its await: clearFormData requests the
\* removal if persistenceKey is set
RequestClearMutSkips(options) == queue' = queue

RequestClear(options) ==
  IF truthy(options.persistenceKey)
  THEN /\ Len(queue) < MaxQueue
       /\ queue' = Append(queue, Req("removeItem", "clear",
                                     getStorageKey(options.persistenceKey[1]),
                                     None, {}, formBudget.mounts))
  ELSE queue' = queue

\* clearPersistedData is called on the mounted form
clearPersistedData ==
  /\ formState.mounted
  /\ formBudget.clears < MaxClears
  /\ RequestClear(formState.options)
  /\ formBudget' = [formBudget EXCEPT !.clears = @ + 1]
  /\ formResult' = None
  /\ UNCHANGED <<now, storage, faults, asyncStorage, formState, persistTimers>>
  /\ UNCHANGED authRest

\* reset: the state of useState again, with a new values object, so the
\* persistence effect runs; then clearPersistedData if persistenceKey is set.
\* No screen calls it, so the call is made at any time at which no request
\* is pending
reset ==
  /\ formState.mounted
  /\ formBudget.edits < MaxEdits
  /\ queue = <<>>
  /\ formState' = ValidateEffect(useState(formState.options))
  /\ persistTimers' = RunPersistEffect(formState')
  /\ RequestClear(formState.options)
  /\ formBudget' = [formBudget EXCEPT !.edits = @ + 1, !.afterReset = TRUE]
  /\ formResult' = None
  /\ UNCHANGED <<now, storage, faults, asyncStorage>>
  /\ UNCHANGED authRest

\* RegistrationScreen.handleSubmit once register has resolved: the navigator
\* replaces the screen and clearPersistedData requests the removal
RegistrationSubmitted ==
  /\ formState.mounted
  /\ Len(queue) < MaxQueue
  /\ formState' = Unmounted
  /\ persistTimers' = {}
  /\ RequestClear(formState.options)
  /\ formResult' = None
  /\ formBudget' = [formBudget EXCEPT !.afterReset = FALSE]
  /\ UNCHANGED <<now, storage, faults, asyncStorage>>
  /\ UNCHANGED authRest

\* AsyncStorage.removeItem(key) on the form records; removing a key that
\* holds nothing resolves as well
removeItemMutKeeps(key) == asyncStorage

removeItem(key) == [asyncStorage EXCEPT ![key] = None]

\* saveFormData after its await: a rejected setItem is re-thrown and then
\* logged by persistFormData
SaveSetItem ==
  /\ queue # <<>>
  /\ queue[1].op = "setItem"
  /\ \E ok \in Outcomes :
       /\ Fault(ok)
       /\ asyncStorage' = IF ok THEN [asyncStorage EXCEPT ![queue[1].key] = queue[1].value]
                          ELSE asyncStorage
       /\ formResult' = Some(Result("save", ok, None))
  /\ queue' = Tail(queue)
  /\ UNCHANGED <<now, storage, formState, persistTimers, formBudget>>
  /\ UNCHANGED authRest

\* getFormData: a record older than 24 hours is expired
isExpiredMutInclusive(record) == now - record.timestamp >= TTL_MS

isExpired(record) == now - record.timestamp > TTL_MS

\* { ...initialValues, ...persistedData }
MergeMutDefaultsWin(a, b) ==
  [f \in DOMAIN a \cup DOMAIN b |-> IF f \in DOMAIN a THEN a[f] ELSE b[f]]

Merge(a, b) ==
  [f \in DOMAIN a \cup DOMAIN b |-> IF f \in DOMAIN b THEN b[f] ELSE a[f]]

\* getFormData returns persistedData to loadPersistedData of mount number
\* mount, which sets the values if there are any; the state of a form that
\* is no longer mounted is not updated
LoadReturns(persistedData, mount) ==
  /\ formResult' = Some(Result("load", TRUE, persistedData))
  /\ IF persistedData # None /\ formState.mounted /\ formBudget.mounts = mount
     THEN /\ formState' = ValidateEffect(
                 [formState EXCEPT
                    !.values = Merge(formState.options.initialValues, persistedData[1])])
          /\ persistTimers' = RunPersistEffect(formState')
     ELSE UNCHANGED <<formState, persistTimers>>

\* getFormData after the await of getItem: null when there is no record or
\* the read rejects; an expired record is cleared before null is returned
LoadGetItem ==
  /\ queue # <<>>
  /\ queue[1].op = "getItem"
  /\ \E ok \in Outcomes :
       /\ Fault(ok)
       /\ LET jsonData == IF ok THEN asyncStorage[queue[1].key] ELSE None
          IN IF jsonData = None
             THEN /\ LoadReturns(None, queue[1].mount)
                  /\ queue' = Tail(queue)
             ELSE IF isExpired(jsonData[1])
             THEN /\ queue' = Append(Tail(queue),
                                     Req("removeItem", "loadExpired", queue[1].key,
                                         None, {}, queue[1].mount))
                  /\ formResult' = None
                  /\ UNCHANGED <<formState, persistTimers>>
             ELSE /\ LoadReturns(Some(jsonData[1].data), queue[1].mount)
                  /\ queue' = Tail(queue)
  /\ UNCHANGED <<now, storage, asyncStorage, formBudget>>
  /\ UNCHANGED authRest

\* clearFormData called by getFormData for an expired record; its error is
\* caught by getFormData, which returns null either way
LoadRemoveItem ==
  /\ queue # <<>>
  /\ queue[1].op = "removeItem"
  /\ queue[1].caller = "loadExpired"
  /\ \E ok \in Outcomes :
       /\ Fault(ok)
       /\ asyncStorage' = IF ok THEN removeItem(queue[1].key) ELSE asyncStorage
  /\ LoadReturns(None, queue[1].mount)
  /\ queue' = Tail(queue)
  /\ UNCHANGED <<now, storage, formBudget>>
  /\ UNCHANGED authRest

\* clearFormData called by clearPersistedData, which logs its error
ClearRemoveItem ==
  /\ queue # <<>>
  /\ queue[1].op = "removeItem"
  /\ queue[1].caller = "clear"
  /\ \E ok \in Outcomes :
       /\ Fault(ok)
       /\ asyncStorage' = IF ok THEN removeItem(queue[1].key) ELSE asyncStorage
       /\ formResult' = Some(Result("clear", ok, None))
  /\ queue' = Tail(queue)
  /\ UNCHANGED <<now, storage, formState, persistTimers, formBudget>>
  /\ UNCHANGED authRest

\* AsyncStorage.getAllKeys: the keys of the form records and the theme, and
\* those of the authentication service that hold a value
getAllKeys ==
  {k \in DOMAIN asyncStorage : asyncStorage[k] # None}
  \cup (IF storage.currentUser # None THEN {USER_STORAGE_KEY} ELSE {})
  \cup (IF storage.users # {} THEN {USERS_STORAGE_KEY} ELSE {})
  \cup (IF storage.failedAttempts # None THEN {FAILED_ATTEMPTS_KEY} ELSE {})
  \cup (IF storage.lockoutUntil # None THEN {LOCKOUT_UNTIL_KEY} ELSE {})

\* AsyncStorage.multiRemove(keys), on both parts of the store
multiRemoveAsyncStorage(keys) ==
  [k \in DOMAIN asyncStorage |-> IF k \in keys THEN None ELSE asyncStorage[k]]

multiRemoveStorage(keys) ==
  [ currentUser |-> IF USER_STORAGE_KEY \in keys THEN None ELSE storage.currentUser,
    users |-> IF USERS_STORAGE_KEY \in keys THEN {} ELSE storage.users,
    failedAttempts |-> IF FAILED_ATTEMPTS_KEY \in keys THEN None
                       ELSE storage.failedAttempts,
    lockoutUntil |-> IF LOCKOUT_UNTIL_KEY \in keys THEN None
                     ELSE storage.lockoutUntil ]

\* keys.filter(key => key.startsWith(FORM_DATA_PREFIX))
formDataKeysMutNoFilter(keys) == keys

formDataKeys(keys) == {k \in keys : startsWith(k, FORM_DATA_PREFIX)}

\* clearAllFormData is called: getAllKeys is requested.  No screen calls it,
\* so the call is made at any time at which no other request is pending
clearAllFormData ==
  /\ formBudget.clearAlls < MaxClearAlls
  /\ queue = <<>>
  /\ formBudget' = [formBudget EXCEPT !.clearAlls = @ + 1]
  /\ queue' = Append(queue, Req("getAllKeys", "clearAll", <<>>, None, {}, 0))
  /\ formResult' = None
  /\ UNCHANGED <<now, storage, faults, asyncStorage, formState, persistTimers>>
  /\ UNCHANGED authRest

\* clearAllFormData after the await of getAllKeys
ClearAllGetAllKeys ==
  /\ queue # <<>>
  /\ queue[1].op = "getAllKeys"
  /\ \E ok \in Outcomes :
       /\ Fault(ok)
       /\ IF ok /\ formDataKeys(getAllKeys) # {}
          THEN /\ queue' = Append(Tail(queue),
                                  Req("multiRemove", "clearAll", <<>>, None,
                                      formDataKeys(getAllKeys), 0))
               /\ formResult' = None
          ELSE /\ queue' = Tail(queue)
               /\ formResult' = Some(Result("clearAll", ok, None))
  /\ UNCHANGED <<now, storage, asyncStorage, formState, persistTimers,
                 formBudget>>
  /\ UNCHANGED authRest

\* clearAllFormData after the await of multiRemove
ClearAllMultiRemove ==
  /\ queue # <<>>
  /\ queue[1].op = "multiRemove"
  /\ \E ok \in Outcomes :
       /\ Fault(ok)
       /\ asyncStorage' = IF ok THEN multiRemoveAsyncStorage(queue[1].keys)
                          ELSE asyncStorage
       /\ storage' = IF ok THEN multiRemoveStorage(queue[1].keys) ELSE storage
       /\ formResult' = Some(Result("clearAll", ok, None))
  /\ queue' = Tail(queue)
  /\ UNCHANGED <<now, formState, persistTimers, formBudget>>
  /\ UNCHANGED authRest

\* Date.now() matters to the form engine only while a timeout is pending or
\* a record of the form is stored
TickSteps == {1, DEBOUNCE_MS, TTL_MS}

FormTick(d) ==
  /\ formBudget.ticks < MaxFormTicks
  /\ persistTimers # {} \/ asyncStorage[getStorageKey(persistenceKey)] # None
  /\ now' = now + d
  /\ formBudget' = [formBudget EXCEPT !.ticks = @ + 1]
  /\ formResult' = None
  /\ UNCHANGED <<storage, faults, asyncStorage, formState, persistTimers, queue>>
  /\ UNCHANGED authRest

\* the user table and session left by an earlier registration
RegisteredUser == [id |-> 1, email |-> LowerEmail]
StoredSessions ==
  << [ currentUser |-> None, users |-> {}, failedAttempts |-> None,
       lockoutUntil |-> None ],
     [ currentUser |-> Some(RegisteredUser), users |-> {RegisteredUser},
       failedAttempts |-> None, lockoutUntil |-> None ] >>

\* records saved at time 0, in an earlier run of the application, by the
\* registration form and through saveFormData under the second form id; they
\* hold the first name only, as a record does that was written before the
\* form had the other field
OtherRecord == Some([data |-> [firstName |-> <<"J">>], timestamp |-> 0])
StoredForms ==
  << FreshStore,
     [FreshStore EXCEPT ![getStorageKey(OtherFormId)] = OtherRecord,
                        ![getStorageKey(persistenceKey)] = OtherRecord] >>

FormInit ==
  /\ now = 0
  /\ authState = initialState
  /\ unlockTimer = {}
  /\ \E i \in 1..2 : storage = StoredSessions[i] /\ asyncStorage = StoredForms[i]
  /\ keychain = None
  /\ idCounter = 0
  /\ tasks = [s \in Slots |-> idleTask]
  /\ isSubmitting = FALSE
  /\ biometricEnabled = FALSE
  /\ settled = None
  /\ faults = 0
  /\ restarts = 0
  /\ FormIdle

FormNext ==
  \/ FormMount(RegistrationOptions)
  \/ \E v \in FieldValues : handleChange("firstName", v)
  \/ reset
  \/ persistTimerFires
  \/ FormUnmount
  \/ RegistrationSubmitted
  \/ SaveSetItem
  \/ LoadGetItem
  \/ LoadRemoveItem
  \/ ClearRemoveItem
  \/ clearAllFormData
  \/ ClearAllGetAllKeys
  \/ ClearAllMultiRemove
  \/ \E d \in TickSteps : FormTick(d)

FormSpec == FormInit /\ [][FormNext]_vars

\* ------------------------------------------------ form engine: claims
\* the head of the queue is the request op of caller, and this step
\* completes it
HeadIs(op, caller) ==
  /\ queue # <<>>
  /\ queue[1].op = op
  /\ queue[1].caller = caller
Consumed ==
  \/ queue' = Tail(queue)
  \/ /\ Len(queue') = Len(queue)
     /\ queue' # queue
     /\ SubSeq(queue', 1, Len(queue') - 1) = Tail(queue)
Completes(op, caller) == HeadIs(op, caller) /\ Consumed
StoreAccepts == faults' = faults
FormKey == getStorageKey(persistenceKey)
LoadResult(data) == Some(Result("load", TRUE, data))

\* C16: a load whose read the store serves returns the saved data exactly
\* when a record exists and now - savedAt is at most 24 hours, and then
\* keeps the record; with an older record it returns absent after removing
\* the record, and without a record it returns absent.
C16_LoadHonoursExpiry ==
  [][/\ (Completes("getItem", "load") /\ StoreAccepts) =>
          LET rec == asyncStorage[queue[1].key]
          IN /\ (rec # None /\ now - rec[1].timestamp <= TTL_MS) =>
                  /\ formResult' = LoadResult(Some(rec[1].data))
                  /\ asyncStorage' = asyncStorage
             /\ rec = None =>
                  /\ formResult' = LoadResult(None)
                  /\ asyncStorage' = asyncStorage
             /\ (rec # None /\ now - rec[1].timestamp > TTL_MS) =>
                  /\ formResult' = None
                  /\ queue'[Len(queue')].op = "removeItem"
                  /\ queue'[Len(queue')].key = queue[1].key
     /\ (Completes("removeItem", "loadExpired") /\ StoreAccepts) =>
          /\ formResult' = LoadResult(None)
          /\ asyncStorage'[queue[1].key] = None
     /\ (formResult' # None /\ formResult'[1].op = "load" /\ formResult'[1].data # None) =>
          /\ asyncStorage[FormKey] # None
          /\ formResult'[1].data = Some(asyncStorage[FormKey][1].data)
          /\ now - asyncStorage[FormKey][1].timestamp <= TTL_MS]_vars

C16_WitnessExactly24h ==
  /\ formResult # None
  /\ formResult[1].op = "load"
  /\ formResult[1].data # None
  /\ asyncStorage[FormKey] # None
  /\ now - asyncStorage[FormKey][1].timestamp = TTL_MS

\* C17: a clear the store serves leaves no record of that form and changes
\* no other key; on a form without a record it changes nothing and resolves
\* (so clearing twice is the same as clearing once); a load that finds no
\* record returns absent, and only a save creates a record again.
C17_ClearIdempotent ==
  [][/\ (Completes("removeItem", "clear") /\ StoreAccepts) =>
          /\ asyncStorage'[queue[1].key] = None
          /\ \A k \in DOMAIN asyncStorage :
               k # queue[1].key => asyncStorage'[k] = asyncStorage[k]
          /\ formResult' = Some(Result("clear", TRUE, None))
          /\ asyncStorage[queue[1].key] = None => asyncStorage' = asyncStorage
     /\ (Completes("getItem", "load") /\ asyncStorage[queue[1].key] = None) =>
          formResult' = LoadResult(None)
     /\ (asyncStorage[FormKey] = None /\ asyncStorage'[FormKey] # None) =>
          Completes("setItem", "save")]_vars

C17_WitnessClearOfAbsent ==
  /\ formResult = Some(Result("clear", TRUE, None))
  /\ asyncStorage = FreshStore
  /\ storage.users = {}
  /\ formBudget.ticks = 0
  /\ formBudget.mounts = 2
  /\ faults = 0

\* C18: no operation of the form engine changes the session record, the
\* user table, the failure counter, the lockout deadline or the theme key;
\* a save or a clear changes no key but that form's own; clearAll lists
\* exactly the stored keys of the form data and a multiRemove the store
\* serves removes those and nothing else.
C18_FormOpsStayInsidePrefix ==
  [][/\ storage' = storage
     /\ asyncStorage'[THEME_STORAGE_KEY] = asyncStorage[THEME_STORAGE_KEY]
     /\ \A k \in DOMAIN asyncStorage :
          asyncStorage'[k] # asyncStorage[k] => startsWith(k, FORM_DATA_PREFIX)
     /\ \A op \in {"setItem", "removeItem"} :
          (queue # <<>> /\ queue[1].op = op /\ Consumed) =>
            \A k \in DOMAIN asyncStorage :
              k # queue[1].key => asyncStorage'[k] = asyncStorage[k]
     /\ Completes("getAllKeys", "clearAll") =>
          \/ ~StoreAccepts
          \/ /\ {k \in FormKeys : asyncStorage[k] # None} = {}
             /\ formResult' = Some(Result("clearAll", TRUE, None))
             /\ asyncStorage' = asyncStorage
          \/ /\ queue'[Len(queue')].op = "multiRemove"
             /\ queue'[Len(queue')].keys = {k \in FormKeys : asyncStorage[k] # None}
     /\ (Completes("multiRemove", "clearAll") /\ StoreAccepts) =>
          /\ \A k \in DOMAIN asyncStorage :
               asyncStorage'[k] = IF k \in queue[1].keys THEN None ELSE asyncStorage[k]
          /\ queue[1].keys \subseteq FormKeys]_vars

C18_WitnessClearAll ==
  /\ formResult = Some(Result("clearAll", TRUE, None))
  /\ storage.users # {}
  /\ storage.currentUser # None
  /\ asyncStorage[THEME_STORAGE_KEY] # None
  /\ \A k \in FormKeys : asyncStorage[k] = None
  /\ faults = 0

\* this step hands a save to the store
SaveIssued ==
  /\ Len(queue') = Len(queue) + 1
  /\ queue'[Len(queue')].op = "setItem"
ValuesChange == formState'.mounted /\ formState.mounted /\ formState'.values # formState.values

\* C19: at most one debounce timer is pending and it carries the values of
\* the latest change; a change issues no save itself and replaces the pending
\* timer by one armed at that moment; a save is issued only when at least
\* 500 ms have passed since the latest change, it carries the values of that
\* change, and it leaves no timer behind: a burst of changes less than 500 ms
\* apart yields one save, with the last values.
C19_DebounceCollapsesBurst ==
  [][/\ Cardinality(persistTimers') <= 1
     /\ \A tm \in persistTimers' :
          /\ formState'.mounted
          /\ tm.values = formState'.values
          /\ tm.due = tm.armedAt + DEBOUNCE_MS
     /\ ValuesChange =>
          /\ ~SaveIssued
          /\ \A tm \in persistTimers' : tm.armedAt = now
          /\ persistTimers' # {}
     /\ SaveIssued =>
          /\ persistTimers # {}
          /\ \A tm \in persistTimers : now >= tm.armedAt + DEBOUNCE_MS
          /\ queue'[Len(queue')].key = FormKey
          /\ queue'[Len(queue')].value # None
          /\ queue'[Len(queue')].value[1].data = formState.values
          /\ formState' = formState
          /\ persistTimers' = {}]_vars

\* three changes within 100 ms, then one save is with the store, 500 ms
\* after the third change and with its values, and no other save was made
C19_WitnessBurstOfThree ==
  /\ formBudget.edits = 3
  /\ ~formBudget.afterReset
  /\ formBudget.mounts = 1
  /\ now < DEBOUNCE_MS + 100
  /\ Len(queue) = 1
  /\ queue[1].op = "setItem"
  /\ queue[1].value[1].data = formState.values
  /\ queue[1].value[1].timestamp = now
  /\ asyncStorage[FormKey] = None
  /\ persistTimers = {}

\* the form is mounted, nothing was cleared through clearAllFormData, no
\* store call was rejected, and no timer and no request is pending
FormQuiescent ==
  /\ formState.mounted
  /\ persistTimers = {}
  /\ queue = <<>>
  /\ faults = 0
  /\ formBudget.clearAlls = 0

\* C20: for the mounted form, once edits have stopped and every timer and
\* every request has run, with no write rejected, the persisted record holds
\* the values in memory.
C20_PersistedEqualsMemoryAtRest ==
  FormQuiescent =>
    /\ asyncStorage[FormKey] # None
    /\ asyncStorage[FormKey][1].data = formState.values

\* C21: when reset made the latest change of the values, and every timer
\* and every request has run with no store call rejected, the form holds
\* the initial values with no errors and no touched field, and the store
\* holds no record under the form's key.
C21_ResetLeavesNoRecord ==
  (FormQuiescent /\ formBudget.afterReset) =>
    /\ formState.values = formState.options.initialValues
    /\ DOMAIN formState.errors = {}
    /\ DOMAIN formState.touched = {}
    /\ asyncStorage[FormKey] = None

\* this step completes the load that the mounted form started, and no edit
\* has changed the initial values
LoadCompletesUnedited ==
  /\ Completes("getItem", "load") \/ Completes("removeItem", "loadExpired")
  /\ formResult' # None
  /\ formState.mounted
  /\ queue[1].mount = formBudget.mounts
  /\ formState.values = formState.options.initialValues

\* C23: when the load of a form returns record R and no edit came before,
\* every field of R has the value of R and every other field its initial
\* default; when the load returns absent the values stay the defaults.
C23_LoadMergesOverDefaults ==
  [][LoadCompletesUnedited =>
       LET R == formResult'[1].data
           defaults == formState.options.initialValues
       IN IF R = None
          THEN formState'.values = defaults
          ELSE /\ DOMAIN formState'.values = DOMAIN defaults \cup DOMAIN R[1]
               /\ \A f \in DOMAIN formState'.values :
                    formState'.values[f] = IF f \in DOMAIN R[1] THEN R[1][f]
                                           ELSE defaults[f]]_vars

C23_WitnessPartialRecord ==
  /\ formResult # None
  /\ formResult[1].op = "load"
  /\ formResult[1].data # None
  /\ "lastName" \notin DOMAIN formResult[1].data[1]
  /\ formState.mounted
  /\ formState.values = [firstName |-> <<"J">>, lastName |-> <<>>]

\* ====================================================== form field state
\* useForm on forms that have no durable backing: the login form, which
\* passes no persistenceKey, and forms created with the empty key.  The
\* validation rules of a form are options of the hook, drawn from RuleInputs.
FieldInputs == { <<>>, <<" ">>, <<"a", "b">>, <<"a", "@", "b", ".", "c">> }
Fields == {"email", "password", "confirmPassword"}

RuleInputs ==
  { Rule(required, minLength, maxLength, pattern, customRule) :
      required \in BOOLEAN, minLength \in {0, 3}, maxLength \in {0, 1},
      pattern \in {None, Some("EMAIL_REGEX")}, customRule \in {None, Some("noAt")} }

\* a confirmation form under every rule of RuleInputs, a form whose rules
\* name a field that values does not hold, and one without a password field
KeylessOptions ==
  {LoginOptions}
  \cup { Options(Some(""), [password |-> <<>>, confirmPassword |-> <<>>],
                 [password |-> validationRules.password, confirmPassword |-> rule],
                 onChange, TRUE) :
           rule \in RuleInputs \cup {validationRules.confirmPassword},
           onChange \in BOOLEAN }
  \cup { Options(Some(""), [password |-> <<>>],
                 [password |-> LoginPasswordRule,
                  confirmPassword |-> validationRules.confirmPassword], TRUE, TRUE),
         Options(Some(""), [confirmPassword |-> <<>>],
                 [confirmPassword |-> Rule(FALSE, 0, 0, None, None)], TRUE, TRUE) }

FieldInit ==
  /\ now = 0
  /\ authState = initialState
  /\ unlockTimer = {}
  /\ storage = StoredSessions[1]
  /\ asyncStorage = FreshStore
  /\ keychain = None
  /\ idCounter = 0
  /\ tasks = [s \in Slots |-> idleTask]
  /\ isSubmitting = FALSE
  /\ biometricEnabled = FALSE
  /\ settled = None
  /\ faults = 0
  /\ restarts = 0
  /\ FormIdle

FieldNext ==
  \/ \E options \in KeylessOptions : FormMount(options)
  \/ FormUnmount
  \/ \E field \in Fields, value \in FieldInputs : handleChange(field, value)
  \/ \E field \in Fields : handleBlur(field)
  \/ validate
  \/ reset
  \/ clearPersistedData

FieldSpec == FieldInit /\ [][FieldNext]_vars

\* the form that is mounted, or mounts in this step, was created without a
\* persistence key or with an empty one
Keyless ==
  /\ formState'.mounted
  /\ formState'.options.persistenceKey \in {None, Some("")}

\* C22: no change, blur, validate, reset or clearPersistedData of a form
\* without a persistence key sets a debounce timeout, makes a request to the
\* store or changes a stored key; the store never holds a record of it.
C22_KeylessFormNeverPersists ==
  [][Keyless =>
       /\ persistTimers' = {}
       /\ queue' = <<>>
       /\ asyncStorage' = asyncStorage
       /\ \A k \in FormKeys : asyncStorage'[k] = None]_vars

C22_WitnessLoginPasswordTyped ==
  /\ formState.options = LoginOptions
  /\ formState.values.password # <<>>
  /\ "password" \in DOMAIN formState.touched
  /\ formBudget.clears = 1
  /\ formBudget.edits = 3
  /\ queue = <<>>
  /\ persistTimers = {}
  /\ \A k \in FormKeys : asyncStorage[k] = None

\* C24: a change of field f leaves the stored error of every other field as
\* it was, and changes the error of f only if validateOnChange is set and f
\* is touched.
C24_ChangeRevalidatesOnlyField ==
  [][\A f \in Fields, value \in FieldInputs :
       handleChange(f, value) =>
         /\ \A g \in Fields \ {f} : errorOf(formState', g) = errorOf(formState, g)
         /\ errorOf(formState', f) # errorOf(formState, f) =>
              formState.options.validateOnChange /\ isTouched(formState, f)]_vars

\* the checks of a rule that a value fails, stated one by one
ValidationOrder == <<"required", "minLength", "maxLength", "pattern", "custom", "match">>
Fails(check, value, rule, confirmValue) ==
  CASE check = "required" ->
         rule.required /\ \A i \in DOMAIN value : value[i] \in Whitespace
    [] check = "minLength" ->
         Len(value) > 0 /\ rule.minLength > 0 /\ Len(value) < rule.minLength
    [] check = "maxLength" ->
         Len(value) > 0 /\ rule.maxLength > 0 /\ Len(value) > rule.maxLength
    [] check = "pattern" ->
         Len(value) > 0 /\ rule.pattern # None /\ ~test(rule.pattern[1], value)
    [] check = "custom" ->
         Len(value) > 0 /\ rule.custom # None /\ ~custom(rule.custom[1], value)
    [] check = "match" -> confirmValue # None /\ value # confirmValue[1]
FirstFailure(value, rule, confirmValue) ==
  LET failing == {i \in DOMAIN ValidationOrder :
                    Fails(ValidationOrder[i], value, rule, confirmValue)}
  IN IF failing = {} THEN None
     ELSE Some(ValidationOrder[CHOOSE i \in failing : \A j \in failing : i <= j])
\* the value validateForm compares a field with, if any
ConfirmValueOf(st, field) ==
  IF field = "confirmPassword" /\ "password" \in DOMAIN st.values
  THEN Some(st.values.password) ELSE None

\* C25: validate stores for every field of the rules at most one error, the
\* first failing check in the order required, minLength, maxLength, pattern,
\* custom, match; required fails exactly on an empty or white-space-only
\* value, and the length, pattern and custom checks fail only on a non-empty
\* value.
C25_FirstFailingCheckWins ==
  [][validate =>
       \A f \in DOMAIN formState.options.validationRules :
         errorOf(formState', f) =
           FirstFailure(valueOf(formState.values, f),
                        formState.options.validationRules[f],
                        ConfirmValueOf(formState, f))]_vars

C25_WitnessSeveralChecksFail ==
  /\ formState.mounted
  /\ "confirmPassword" \in DOMAIN formState.values
  /\ formState.values.confirmPassword = <<"a", "b">>
  /\ formState.options.validationRules.confirmPassword.minLength = 3
  /\ formState.options.validationRules.confirmPassword.maxLength = 1
  /\ formState.options.validationRules.confirmPassword.pattern # None
  /\ DOMAIN formState.touched = DOMAIN formState.options.validationRules
  /\ errorOf(formState, "confirmPassword") = Some("minLength")

\* C26: validate stores a match error for a field exactly when the field is
\* confirmPassword, values holds a password, the two values differ and the
\* value fails no required, length, pattern or custom check of its rule; no
\* other field is compared.
C26_MatchOnlyAfterOtherChecks ==
  [][validate =>
       \A f \in DOMAIN formState.options.validationRules :
         errorOf(formState', f) = Some("match") <=>
           /\ f = "confirmPassword"
           /\ "password" \in DOMAIN formState.values
           /\ valueOf(formState.values, f) # formState.values.password
           /\ \A i \in 1..5 :
                ~Fails(ValidationOrder[i], valueOf(formState.values, f),
                       formState.options.validationRules[f], None)]_vars

C26_WitnessMatchError ==
  /\ formState.mounted
  /\ DOMAIN formState.touched = DOMAIN formState.options.validationRules
  /\ errorOf(formState, "confirmPassword") = Some("match")
  /\ formState.options.validationRules.confirmPassword.pattern # None
  /\ formState.values.confirmPassword # formState.values.password

\* C27: validate stores isValid = true exactly when no field of the rules has
\* an error, a field that values does not hold being validated as ''; errors
\* and isValid are those validateForm gives for the values and the rules,
\* whatever the rest of the state.
C27_ValidIffNoError ==
  [][validate =>
       LET rules == formState.options.validationRules
       IN /\ DOMAIN formState'.errors = DOMAIN rules
          /\ formState'.isValid <=> \A f \in DOMAIN rules : formState'.errors[f] = None
          /\ \A f \in DOMAIN rules \ DOMAIN formState.values :
               formState'.errors[f] = FirstFailure(<<>>, rules[f], ConfirmValueOf(formState, f))
          /\ formState'.errors = validateForm(formState.values, rules).errors
          /\ formState'.isValid = validateForm(formState.values, rules).isValid]_vars

C27_WitnessValid ==
  /\ formState.mounted
  /\ formState.isValid
  /\ DOMAIN formState.touched = DOMAIN formState.options.validationRules
  /\ \A f \in DOMAIN formState.options.validationRules : errorOf(formState, f) = None

\* ================================================= unlock timer: claims

\* the step is the callback of an unlock timeout and it dispatches UNLOCK_ACCOUNT
Unlocks ==
  /\ unlockTimerFires
  /\ authState.isLocked
  /\ ~authState'.isLocked

\* C28: the unlock timer never unlocks the account while the current
\* lockoutUntil is still in the future; at most one unlock timeout is pending,
\* every pending timeout was set for the current lockoutUntil of a locked
\* account (a change or clearing of lockoutUntil cancels the previous one), so
\* a timeout of an older lockout window never fires against a newer window
C28_UnlockTimerFollowsLockout ==
  /\ [](Cardinality(unlockTimer) <= 1)
  /\ [](\A lockoutUntil \in unlockTimer :
          authState.isLocked /\ authState.lockoutUntil = Some(lockoutUntil))
  /\ [][Unlocks => /\ authState.lockoutUntil # None
                   /\ now >= authState.lockoutUntil[1]
                   /\ unlockTimer' = {}]_vars

\* the lockout window was renewed before the first one ended: the timeout of
\* the first window was replaced by one for the new deadline
C28_WitnessWindowRenewed ==
  /\ 0 < now
  /\ now < LOCKOUT_MS
  /\ authState.isLocked
  /\ authState.lockoutUntil = Some(now + LOCKOUT_MS)
  /\ unlockTimer = {now + LOCKOUT_MS}

\* the application keeps running: a timeout that is due is eventually run
LiveSpec == Spec /\ WF_vars(unlockTimerFires /\ UNCHANGED formVars)

\* no login, registration or logout is in progress
NoAuthOperation == \A t \in Slots \ {"init"} : tasks[t] = idleTask

Unlocked ==
  /\ ~authState.isLocked
  /\ authState.lockoutUntil = None
  /\ authState.failedAttempts = 0

DeadlineReached ==
  /\ authState.isLocked
  /\ authState.lockoutUntil # None
  /\ now >= authState.lockoutUntil[1]

\* C29: once the account is locked and time has reached the deadline, the
\* state eventually becomes isLocked = FALSE, lockoutUntil absent and
\* failedAttempts = 0 unless a login, registration or logout intervenes: the
\* unlock timeout alone does it, no lock-status read or user action is needed
C29_LockEventuallyExpires ==
  DeadlineReached ~> (Unlocked \/ ~NoAuthOperation)

\* the deadline has passed and the unlock timeout has not run yet, with no
\* operation in progress
C29_WitnessDeadlinePassed ==
  /\ DeadlineReached
  /\ NoAuthOperation
  /\ restarts = 0
  /\ unlockTimer # {}

\* ==================================================== lock status service
\* AuthenticationService keeps a failure counter and a lockout deadline in
\* AsyncStorage, both as decimal strings; storage.failedAttempts and
\* storage.lockoutUntil are the values under FAILED_ATTEMPTS_KEY and under
\* LOCKOUT_UNTIL_KEY
Digits == <<"0", "1", "2", "3", "4", "5", "6", "7", "8", "9">>

\* Number.prototype.toString of a non-negative integer
RECURSIVE toString(_)
toString(n) ==
  IF n < 10 THEN <<Digits[n + 1]>>
  ELSE Append(toString(n \div 10), Digits[(n % 10) + 1])

\* parseInt(s, 10) of a string of decimal digits
RECURSIVE parseInt(_)
parseInt(s) ==
  LET digit == CHOOSE d \in 0..9 : Digits[d + 1] = s[Len(s)]
  IN IF Len(s) = 1 THEN digit
     ELSE 10 * parseInt(SubSeq(s, 1, Len(s) - 1)) + digit

getItem(key) ==
  IF key = FAILED_ATTEMPTS_KEY THEN storage.failedAttempts ELSE storage.lockoutUntil

setItem(key, value) ==
  IF key = FAILED_ATTEMPTS_KEY
  THEN [storage EXCEPT !.failedAttempts = Some(value)]
  ELSE [storage EXCEPT !.lockoutUntil = Some(value)]

removeLockItem(key) ==
  IF key = FAILED_ATTEMPTS_KEY
  THEN [storage EXCEPT !.failedAttempts = None]
  ELSE [storage EXCEPT !.lockoutUntil = None]

LockReq(op, caller, key, value) == Req(op, caller, key, value, {}, 0)
Returns(caller, ok, data) == formResult' = Some(Result(caller, ok, data))
LockRest ==
  /\ UNCHANGED <<asyncStorage, formState, persistTimers>>
  /\ UNCHANGED authRest

\* incrementFailedAttempts up to its first await
incrementFailedAttempts ==
  /\ formBudget.attempts < MaxAttempts
  /\ Len(queue) < MaxQueue
  /\ queue' = Append(queue, LockReq("getItem", "incrementFailedAttempts",
                                    FAILED_ATTEMPTS_KEY, None))
  /\ formBudget' = [formBudget EXCEPT !.attempts = @ + 1]
  /\ formResult' = None
  /\ UNCHANGED <<now, storage, faults>>
  /\ LockRest

\* after the read of the counter: a rejection is caught and logged
IncrementGetItem ==
  /\ HeadIs("getItem", "incrementFailedAttempts")
  /\ \E ok \in Outcomes :
       /\ Fault(ok)
       /\ IF ok
          THEN LET attemptsStr == getItem(FAILED_ATTEMPTS_KEY)
                   currentAttempts == IF attemptsStr # None /\ attemptsStr[1] # <<>>
                                      THEN parseInt(attemptsStr[1]) ELSE 0
                   newAttempts == currentAttempts + 1
               IN /\ queue' = Append(Tail(queue),
                                     LockReq("setItem", "incrementFailedAttempts",
                                             FAILED_ATTEMPTS_KEY, toString(newAttempts)))
                  /\ formResult' = None
          ELSE /\ queue' = Tail(queue)
               /\ Returns("incrementFailedAttempts", FALSE, None)
  /\ UNCHANGED <<now, storage, formBudget>>
  /\ LockRest

\* after the write of the counter: from the fifth failure on the deadline
\* Date.now() + 15 minutes is written
IncrementSetAttempts ==
  /\ HeadIs("setItem", "incrementFailedAttempts")
  /\ queue[1].key = FAILED_ATTEMPTS_KEY
  /\ \E ok \in Outcomes :
       /\ Fault(ok)
       /\ IF ok
          THEN /\ storage' = setItem(queue[1].key, queue[1].value)
               /\ IF parseInt(queue[1].value) >= LOCKOUT_THRESHOLD
                  THEN /\ queue' = Append(Tail(queue),
                                          LockReq("setItem", "incrementFailedAttempts",
                                                  LOCKOUT_UNTIL_KEY,
                                                  toString(now + LOCKOUT_MS)))
                       /\ formResult' = None
                  ELSE /\ queue' = Tail(queue)
                       /\ Returns("incrementFailedAttempts", TRUE, None)
          ELSE /\ queue' = Tail(queue)
               /\ Returns("incrementFailedAttempts", FALSE, None)
               /\ UNCHANGED storage
  /\ UNCHANGED <<now, formBudget>>
  /\ LockRest

IncrementSetLockout ==
  /\ HeadIs("setItem", "incrementFailedAttempts")
  /\ queue[1].key = LOCKOUT_UNTIL_KEY
  /\ \E ok \in Outcomes :
       /\ Fault(ok)
       /\ storage' = IF ok THEN setItem(queue[1].key, queue[1].value) ELSE storage
       /\ Returns("incrementFailedAttempts", ok, None)
  /\ queue' = Tail(queue)
  /\ UNCHANGED <<now, formBudget>>
  /\ LockRest

\* isAccountLocked up to its await; LoginScreen calls it when it mounts
isAccountLocked ==
  /\ formBudget.lockChecks < MaxLockChecks
  /\ Len(queue) < MaxQueue
  /\ queue' = Append(queue, LockReq("getItem", "isAccountLocked",
                                    LOCKOUT_UNTIL_KEY, None))
  /\ formBudget' = [formBudget EXCEPT !.lockChecks = @ + 1]
  /\ formResult' = None
  /\ UNCHANGED <<now, storage, faults>>
  /\ LockRest

isLockedMutInclusive(lockoutUntil) == now <= lockoutUntil

isLocked(lockoutUntil) == now < lockoutUntil

\* after the read of the deadline: false without a deadline or when the read
\* rejects; with a deadline that has passed resetFailedAttempts is awaited
IsLockedGetItem ==
  /\ HeadIs("getItem", "isAccountLocked")
  /\ \E ok \in Outcomes :
       /\ Fault(ok)
       /\ LET lockoutUntilStr == IF ok THEN getItem(LOCKOUT_UNTIL_KEY) ELSE None
          IN IF lockoutUntilStr = None \/ lockoutUntilStr[1] = <<>>
             THEN /\ queue' = Tail(queue)
                  /\ Returns("isAccountLocked", ok, Some(FALSE))
             ELSE IF isLocked(parseInt(lockoutUntilStr[1]))
             THEN /\ queue' = Tail(queue)
                  /\ Returns("isAccountLocked", ok, Some(TRUE))
             ELSE /\ queue' = Append(Tail(queue),
                                     LockReq("removeItem", "isAccountLocked",
                                             FAILED_ATTEMPTS_KEY, None))
                  /\ formResult' = None
  /\ UNCHANGED <<now, storage, formBudget>>
  /\ LockRest

\* resetFailedAttempts after the removal of the counter: a rejection is
\* caught and logged there, the removal of the deadline is skipped and
\* isAccountLocked returns false
ResetRemoveAttempts ==
  /\ HeadIs("removeItem", "isAccountLocked")
  /\ queue[1].key = FAILED_ATTEMPTS_KEY
  /\ \E ok \in Outcomes :
       /\ Fault(ok)
       /\ IF ok
          THEN /\ storage' = removeLockItem(queue[1].key)
               /\ queue' = Append(Tail(queue),
                                  LockReq("removeItem", "isAccountLocked",
                                          LOCKOUT_UNTIL_KEY, None))
               /\ formResult' = None
          ELSE /\ queue' = Tail(queue)
               /\ Returns("isAccountLocked", FALSE, Some(FALSE))
               /\ UNCHANGED storage
  /\ UNCHANGED <<now, formBudget>>
  /\ LockRest

ResetRemoveLockout ==
  /\ HeadIs("removeItem", "isAccountLocked")
  /\ queue[1].key = LOCKOUT_UNTIL_KEY
  /\ \E ok \in Outcomes :
       /\ Fault(ok)
       /\ storage' = IF ok THEN removeLockItem(queue[1].key) ELSE storage
       /\ Returns("isAccountLocked", ok, Some(FALSE))
  /\ queue' = Tail(queue)
  /\ UNCHANGED <<now, formBudget>>
  /\ LockRest

\* time passes while a deadline is persisted
LockTickSteps == {1, LOCKOUT_MS}

LockTick(d) ==
  /\ formBudget.ticks < MaxFormTicks
  /\ storage.lockoutUntil # None
  /\ now' = now + d
  /\ formBudget' = [formBudget EXCEPT !.ticks = @ + 1]
  /\ formResult' = None
  /\ UNCHANGED <<storage, faults, queue>>
  /\ LockRest

LockInit == FieldInit

LockNext ==
  \/ incrementFailedAttempts
  \/ IncrementGetItem
  \/ IncrementSetAttempts
  \/ IncrementSetLockout
  \/ isAccountLocked
  \/ IsLockedGetItem
  \/ ResetRemoveAttempts
  \/ ResetRemoveLockout
  \/ \E d \in LockTickSteps : LockTick(d)

LockSpec == LockInit /\ [][LockNext]_vars

\* ------------------------------------------- lock status service: claims
IsLockedResult(ok, isLockedNow) == Some(Result("isAccountLocked", ok, Some(isLockedNow)))
RemovalRequested(key) ==
  /\ queue' # <<>>
  /\ queue'[Len(queue')] = LockReq("removeItem", "isAccountLocked", key, None)
  /\ formResult' = None

\* C30: isAccountLocked returns true exactly when its read finds a persisted
\* deadline and now is earlier than it, and then changes nothing; when the
\* deadline it finds has passed it removes the persisted failure counter and
\* then the persisted deadline (each removal the store serves) and returns
\* false; when no deadline exists or the read fails it returns false, removes
\* nothing and changes nothing.
C30_IsAccountLockedFollowsDeadline ==
  [][/\ Completes("getItem", "isAccountLocked") =>
          LET deadline == storage.lockoutUntil
          IN /\ (StoreAccepts /\ deadline # None /\ now < parseInt(deadline[1])) =>
                  /\ formResult' = IsLockedResult(TRUE, TRUE)
                  /\ queue' = Tail(queue)
             /\ (StoreAccepts /\ deadline # None /\ now >= parseInt(deadline[1])) =>
                  RemovalRequested(FAILED_ATTEMPTS_KEY)
             /\ (~StoreAccepts \/ deadline = None) =>
                  /\ formResult' = IsLockedResult(StoreAccepts, FALSE)
                  /\ queue' = Tail(queue)
             /\ storage' = storage
     /\ (Completes("removeItem", "isAccountLocked") /\ StoreAccepts) =>
          IF queue[1].key = FAILED_ATTEMPTS_KEY
          THEN /\ storage' = [storage EXCEPT !.failedAttempts = None]
               /\ RemovalRequested(LOCKOUT_UNTIL_KEY)
          ELSE /\ storage' = [storage EXCEPT !.lockoutUntil = None]
               /\ formResult' = IsLockedResult(TRUE, FALSE)
     /\ (Completes("removeItem", "isAccountLocked") /\ ~StoreAccepts) =>
          /\ storage' = storage
          /\ formResult' = IsLockedResult(FALSE, FALSE)
          /\ queue' = Tail(queue)
     /\ formResult' = IsLockedResult(TRUE, TRUE) =>
          /\ Completes("getItem", "isAccountLocked")
          /\ storage.lockoutUntil # None
          /\ now < parseInt(storage.lockoutUntil[1])
    ]_vars

\* isAccountLocked has found the deadline written by the fifth failure at the
\* very millisecond it ends, removed counter and deadline, and returned false
C30_WitnessExpiredLockCleared ==
  /\ formResult = IsLockedResult(TRUE, FALSE)
  /\ formBudget.attempts >= LOCKOUT_THRESHOLD
  /\ faults = 0
  /\ queue = <<>>
  /\ now = LOCKOUT_MS
  /\ storage.failedAttempts = None
  /\ storage.lockoutUntil = None

\* isAccountLocked has returned true one millisecond after the lockout began
C30_WitnessStillLocked ==
  /\ formResult = IsLockedResult(TRUE, TRUE)
  /\ now = 1
  /\ storage.failedAttempts = Some(toString(LOCKOUT_THRESHOLD))
  /\ storage.lockoutUntil = Some(toString(LOCKOUT_MS))

\* ============================================== lockout counters: claims

\* C31: failedAttempts never exceeds the threshold of 5 in any reachable
\* AuthState, whatever the interleaving of manual and automatic logins
C31_FailedAttemptsAtMostThreshold ==
  authState.failedAttempts <= LOCKOUT_THRESHOLD

\* C32: while the account stays locked its deadline is not moved: a step
\* from a locked state to a locked state keeps lockoutUntil
C32_DeadlineFixedWhileLocked ==
  [][(authState.isLocked /\ authState'.isLocked) =>
        authState'.lockoutUntil = authState.lockoutUntil]_vars

\* the deadlines a lockout can have in the time the clock covers
Deadlines == {k * TickMs + LOCKOUT_MS : k \in 0..MaxTicks}

\* nothing was ever registered and no session was ever stored: no login or
\* registration has succeeded and nobody has logged out
NeverSignedIn ==
  /\ storage.users = {}
  /\ storage.currentUser = None
  /\ keychain = None

\* the process has been restarted and initializeAuth has completed
Reinitialized ==
  /\ restarts > 0
  /\ tasks["init"] = idleTask

\* C33: a lockout survives a process restart: when the account is locked with
\* deadline D and the process is restarted before D, the account is still
\* locked after initialization as long as D has not been reached; likewise
\* a count of failed attempts is not reset to 0 by a restart.  (Stated for
\* runs in which no login or registration succeeds, so that only the restart
\* can have reset the lock before D.)
C33_LockoutSurvivesRestart ==
  \A D \in Deadlines :
    []((authState.isLocked /\ authState.lockoutUntil = Some(D) /\ restarts = 0) =>
         []((Reinitialized /\ NeverSignedIn /\ now < D) =>
              (authState.isLocked /\ authState.failedAttempts > 0)))

\* C34: failedAttempts increases only in a step in which a login fails
\* because no stored user matches the e-mail; a login that found its user and
\* then failed on a storage or credential-vault write leaves failedAttempts
\* and the lock as they were
C34_OnlyLookupFailureCounts ==
  [][/\ authState'.failedAttempts > authState.failedAttempts =>
          \E t \in LoginSlots : Settles(t, "InvalidCredentials")
     /\ \A t \in LoginSlots :
          Settles(t, "StorageFailure") => LockFields(authState') = LockFields(authState)
    ]_vars

\* C35: a login that fails leaves the persisted current-session record as it
\* was: no failed login has replaced the record by its own user, so a later
\* process start does not restore a session the login did not grant
C35_FailedLoginKeepsSessionRecord ==
  [][\A t \in LoginSlots : LoginFails(t) => ~tasks[t].changedSession]_vars

\* ------------------------------------------------- user table: claims
RegisterFails ==
  Settles("register", "DuplicateEmail") \/ Settles("register", "StorageFailure")

\* C36: a register call that fails leaves the user table and the persisted
\* session record unchanged: the user it built is in neither of them
C36_FailedRegisterLeavesNoUser ==
  [][(RegisterFails /\ tasks["register"].user # None) =>
        /\ tasks["register"].user[1] \notin storage'.users
        /\ storage'.currentUser # tasks["register"].user]_vars

\* C37: the user table only grows: no step removes or alters a stored user
C37_UserTableOnlyGrows ==
  [][storage.users \subseteq storage'.users]_vars

\* ======================================================== user table service
\* authenticationService.register run against the store, one step per await,
\* with calls that overlap: each call reads the whole table, adds its user to
\* its copy and writes the copy back
RegisterEmails == {UpperEmail, LowerEmail, MissingEmail}

\* register up to its first await, the read of the table in getStoredUsers
register(email) ==
  /\ formBudget.registers < MaxRegisters
  /\ Len(queue) < MaxQueue
  /\ queue' = Append(queue, LockReq("getItem", "register", USERS_STORAGE_KEY,
                                    [email |-> email]))
  /\ formBudget' = [formBudget EXCEPT !.registers = @ + 1]
  /\ formResult' = None
  /\ UNCHANGED <<now, storage, faults, asyncStorage, formState, persistTimers>>
  /\ UNCHANGED <<authState, unlockTimer, keychain, idCounter, tasks, isSubmitting,
                 biometricEnabled, settled, restarts>>

UserRest ==
  /\ UNCHANGED <<now, formBudget, asyncStorage, formState, persistTimers>>
  /\ UNCHANGED <<authState, unlockTimer, keychain, tasks, isSubmitting,
                 biometricEnabled, settled, restarts>>

\* after the read: the duplicate check, then the new user is added to the
\* copy and storeUsers is awaited
UsersGetItem ==
  /\ HeadIs("getItem", "register")
  /\ \E ok \in Outcomes :
       /\ Fault(ok)
       /\ LET users == getStoredUsers(ok)
              email == queue[1].value.email
              newUser == NewUser(idCounter + 1, email)
          IN IF ExistingUser(users, email) # None
             THEN /\ queue' = Tail(queue)
                  /\ Returns("register", FALSE, "DuplicateEmail")
                  /\ UNCHANGED idCounter
             ELSE /\ idCounter' = idCounter + 1
                  /\ queue' = Append(Tail(queue),
                                     LockReq("setItem", "register", USERS_STORAGE_KEY,
                                             [user |-> newUser,
                                              users |-> users \cup {newUser}]))
                  /\ formResult' = None
  /\ UNCHANGED storage
  /\ UserRest

\* storeUsers: the copy replaces the stored table; then the session record
UsersSetItem ==
  /\ HeadIs("setItem", "register")
  /\ queue[1].key = USERS_STORAGE_KEY
  /\ \E ok \in Outcomes :
       /\ Fault(ok)
       /\ IF ok
          THEN /\ storage' = [storage EXCEPT !.users = queue[1].value.users]
               /\ queue' = Append(Tail(queue),
                                  LockReq("setItem", "register", USER_STORAGE_KEY,
                                          [user |-> queue[1].value.user]))
               /\ formResult' = None
          ELSE /\ queue' = Tail(queue)
               /\ Returns("register", FALSE, "StorageFailure")
               /\ UNCHANGED storage
  /\ UNCHANGED idCounter
  /\ UserRest

SessionSetItem ==
  /\ HeadIs("setItem", "register")
  /\ queue[1].key = USER_STORAGE_KEY
  /\ \E ok \in Outcomes :
       /\ Fault(ok)
       /\ storage' = IF ok THEN [storage EXCEPT !.currentUser = Some(queue[1].value.user)]
                     ELSE storage
       /\ Returns("register", ok, IF ok THEN "ok" ELSE "StorageFailure")
  /\ queue' = Tail(queue)
  /\ UNCHANGED idCounter
  /\ UserRest

UserInit == FieldInit

UserNext ==
  \/ \E email \in RegisterEmails : register(email)
  \/ UsersGetItem
  \/ UsersSetItem
  \/ SessionSetItem

UserSpec == UserInit /\ [][UserNext]_vars

\* C38: in every reachable state of the user table no two stored users have
\* the same e-mail ignoring case, whatever the order and overlap of the
\* register calls
C38_EmailsUniqueIgnoringCase ==
  \A u, v \in storage.users :
    toLowerCase(u.email) = toLowerCase(v.email) => u = v

\* two register calls with the same e-mail up to case have both read the
\* table and passed the duplicate check before either has written it
C38_WitnessSameEmailOverlap ==
  /\ Len(queue) = 2
  /\ \A i \in 1..2 : /\ queue[i].op = "setItem"
                     /\ queue[i].key = USERS_STORAGE_KEY
  /\ queue[1].value.user.email = queue[2].value.user.email
  /\ faults = 0

\* ================================================= form engine: early edits
\* the registration form with edits of both fields while the load of the
\* persisted record is pending
EditedFields == {"firstName", "lastName"}

EditInit == FormInit

EditNext ==
  \/ FormMount(RegistrationOptions)
  \/ \E field \in EditedFields, value \in FieldValues : handleChange(field, value)
  \/ persistTimerFires
  \/ FormUnmount
  \/ SaveSetItem
  \/ LoadGetItem
  \/ LoadRemoveItem
  \/ \E d \in TickSteps : FormTick(d)

EditSpec == EditInit /\ [][EditNext]_vars

\* this step completes the load started by the form as it is mounted now
LoadCompletesMounted ==
  /\ Completes("getItem", "load") \/ Completes("removeItem", "loadExpired")
  /\ formResult' # None
  /\ formState.mounted
  /\ queue[1].mount = formBudget.mounts

\* C39: a value the user entered into a field before the load of the
\* persisted data completes is still in the field after the load completes:
\* every field that differs from its default when the load completes (only an
\* edit made since the mount can have changed it) keeps its value
C39_EarlyEditSurvivesLoad ==
  [][LoadCompletesMounted =>
       \A field \in DOMAIN formState.values :
         formState.values[field] # formState.options.initialValues[field] =>
           formState'.values[field] = formState.values[field]]_vars

\* ------------------------------------- form engine: record after submission
NoSavePending == \A i \in DOMAIN queue : queue[i].op # "setItem"

====
